---- MODULE Spec2Model ----
(***************************************************************************)
(* Model of the zarastock availability normaliser                          *)
(* (ZaraStockChecker._check_stock_via_api) and of the change tracker of    *)
(* the polling loop (ZaraStockChecker.monitor_products).                   *)
(*                                                                         *)
(* Python strings are sequences of character codes, so that str.lower(),   *)
(* str(int), the f-strings and the ordering used by sorted() are computed  *)
(* rather than assumed.                                                    *)
(***************************************************************************)
EXTENDS Integers, Sequences, FiniteSets, TLC

VARIABLES
    skus_availability,  \* data['skusAvailability'] of the API answer
    page_mapping,       \* what _get_size_mapping_from_page returned
    policy,             \* config: notify_only_all_sizes, min_sizes_in_stock
    size_mapping,       \* the local size_mapping of the latest normalisation
    api_result,         \* result of the latest normalisation, or NotRun
    prev_result,        \* result of the normalisation before it, or NotRun
    calls,              \* how many times the normalisation has run
    telegram,           \* config['telegram']
    last_notified,      \* monitor_products: url -> last notification state
    idx,                \* monitor_products: position in the products list
    now,                \* time.time()
    checks,             \* loop iterations done so far
    event,              \* what the latest loop iteration did
    dispatch,           \* send_telegram_notification: the call in progress
    chk,                \* check_stock: the call in progress
    bfetch,             \* ZaraStockCheckerBrowser.fetch_product_page in progress
    surface,            \* a trigger surface working through its references
    parse,              \* parse_stock_info: what the page holds and the result
    cores,              \* the API paths of the two checker classes on one answer
    serve,              \* the requests the Flask server of app.py is handling
    registry,           \* the stored recipient list and the registrations
    bot                 \* TelegramRegistrationBot.run: the polling loop

norm_vars == <<skus_availability, page_mapping, policy, size_mapping, api_result, prev_result, calls>>

loop_vars == <<telegram, last_notified, idx, now, checks, event>>

more_vars == <<dispatch, chk, bfetch, surface>>

aux_vars == <<parse, cores, serve, registry, bot>>

vars == <<norm_vars, loop_vars, more_vars, aux_vars>>

----------------------------------------------------------------------------
(* Bounds *)

MaxSkus == 4

MaxMinSizes == 2

MaxCalls == 2

\* loop iterations of monitor_products that are followed
MaxChecks == 5

\* longest answer of the family that exercises the whole size-name sequence
MaxLongSkus == 17

----------------------------------------------------------------------------
(* Strings as character codes *)

str_in_stock == <<105, 110, 95, 115, 116, 111, 99, 107>>

str_low_on_stock == <<108, 111, 119, 95, 111, 110, 95, 115, 116, 111, 99, 107>>

str_out_of_stock == <<111, 117, 116, 95, 111, 102, 95, 115, 116, 111, 99, 107>>

\* "IN_STOCK": a status the vendor may send in another case
str_IN_STOCK == <<73, 78, 95, 83, 84, 79, 67, 75>>

\* "coming_soon": a status the code does not know
str_coming_soon == <<99, 111, 109, 105, 110, 103, 95, 115, 111, 111, 110>>

\* the canonical size sequence of the positional fallback
size_names ==
    << <<88, 83>>, <<83>>, <<77>>, <<76>>, <<88, 76>>, <<88, 88, 76>>,
       <<88, 88, 88, 76>>, <<52>>, <<54>>, <<56>>, <<49, 48>>, <<49, 50>>,
       <<49, 52>>, <<49, 54>>, <<49, 56>> >>

\* str(n) for a natural number n
RECURSIVE IntToStr(_)
IntToStr(n) ==
    IF n < 10 THEN <<48 + n>> ELSE IntToStr(n \div 10) \o <<48 + (n % 10)>>

\* f"Size {i+1}" with j = i + 1
SizeN(j) == <<83, 105, 122, 101, 32>> \o IntToStr(j)

\* f"SKU {sku_id}"
SkuLabel(sku_id) == <<83, 75, 85, 32>> \o IntToStr(sku_id)

\* a lower() that was left out
Lower_Unchanged(s) == s

\* str.lower() on ASCII text
Lower(s) == [i \in 1..Len(s) |-> IF s[i] >= 65 /\ s[i] <= 90 THEN s[i] + 32 ELSE s[i]]

\* a <= b in Python's string order (code points, a proper prefix is smaller)
RECURSIVE StrLeq(_, _)
StrLeq(a, b) ==
    IF a = <<>> THEN TRUE
    ELSE IF b = <<>> THEN FALSE
    ELSE IF a[1] < b[1] THEN TRUE
    ELSE IF a[1] > b[1] THEN FALSE
    ELSE StrLeq(Tail(a), Tail(b))

\* sorted() on a list of integers
RECURSIVE InsertInt(_, _)
InsertInt(x, s) ==
    IF s = <<>> THEN <<x>>
    ELSE IF x <= s[1] THEN <<x>> \o s
    ELSE <<s[1]>> \o InsertInt(x, Tail(s))

RECURSIVE SortedInts(_)
SortedInts(s) == IF s = <<>> THEN <<>> ELSE InsertInt(s[1], SortedInts(Tail(s)))

\* sorted() on a list of strings
RECURSIVE InsertStr(_, _)
InsertStr(x, s) ==
    IF s = <<>> THEN <<x>>
    ELSE IF StrLeq(x, s[1]) THEN <<x>> \o s
    ELSE <<s[1]>> \o InsertStr(x, Tail(s))

RECURSIVE SortedStrs(_)
SortedStrs(s) == IF s = <<>> THEN <<>> ELSE InsertStr(s[1], SortedStrs(Tail(s)))

----------------------------------------------------------------------------
(* The availability answer *)

\* the 'availability' value of one entry: a string, JSON null, or no key
AvStr(s) == [tag |-> "str", val |-> s]

AvNull == [tag |-> "null", val |-> <<>>]

AvAbsent == [tag |-> "absent", val |-> <<>>]

\* dict.get(k, default) on a size mapping
NoMapping == [k \in {} |-> <<>>]

MappingGet(m, k, default) == IF k \in DOMAIN m THEN m[k] ELSE default

\* sku_info.get('availability', '')
AvailabilityGet(sku_info) ==
    IF sku_info.availability.tag = "absent" THEN AvStr(<<>>) ELSE sku_info.availability

\* the positional mapping without the sort: labels in order of arrival
PositionalMapping_Unsorted(skus) ==
    LET ids == [i \in 1..Len(skus) |-> skus[i].sku]
        last(k) == CHOOSE i \in 1..Len(ids) :
                       /\ ids[i] = k
                       /\ \A j \in 1..Len(ids) : ids[j] = k => j <= i
    IN  [k \in {ids[i] : i \in 1..Len(ids)} |->
            IF last(k) <= Len(size_names) THEN size_names[last(k)] ELSE SizeN(last(k))]

\* lines 362-377: smallest SKU id = first size name, and so on; a later
\* assignment to the same key overwrites an earlier one
PositionalMapping(skus) ==
    LET sorted_skus == SortedInts([i \in 1..Len(skus) |-> skus[i].sku])
        last(k) == CHOOSE i \in 1..Len(sorted_skus) :
                       /\ sorted_skus[i] = k
                       /\ \A j \in 1..Len(sorted_skus) : sorted_skus[j] = k => j <= i
    IN  [k \in {sorted_skus[i] : i \in 1..Len(sorted_skus)} |->
            IF last(k) <= Len(size_names) THEN size_names[last(k)] ELSE SizeN(last(k))]

\* lines 360-379
SizeMapping(skus, from_page) ==
    IF from_page # NoMapping THEN from_page ELSE PositionalMapping(skus)

\* an availability test on the suffix "stock"
IsAvailable_AnyStock(availability) ==
    /\ Len(availability) >= 5
    /\ SubSeq(availability, Len(availability) - 4, Len(availability)) = <<115, 116, 111, 99, 107>>

\* lines 395-404
IsAvailable(availability) ==
    availability = str_in_stock \/ availability = str_low_on_stock

\* lines 386-413: the loop over the entries.  acc carries the locals
\* available_sizes and in_stock; .lower() on None raises (AttributeError)
RECURSIVE ScanSkus(_, _, _)
ScanSkus(skus, mapping, acc) ==
    IF skus = <<>> \/ acc.raised THEN acc
    ELSE
        LET sku_info == skus[1]
            av == AvailabilityGet(sku_info)
        IN  IF av.tag = "null"
            THEN [acc EXCEPT !.raised = TRUE]
            ELSE
                LET availability == Lower(av.val)
                    size_name == MappingGet(mapping, sku_info.sku, SkuLabel(sku_info.sku))
                IN  IF IsAvailable(availability)
                    THEN ScanSkus(Tail(skus), mapping,
                                  [acc EXCEPT !.in_stock = TRUE,
                                              !.available_sizes = Append(@, size_name)])
                    ELSE ScanSkus(Tail(skus), mapping, acc)

\* the policy without the notify_only_all_sizes branch
ApplyPolicy_NoAll(in_stock, n_available, n_skus, pol) ==
    IF pol.min_sizes_in_stock > 0 /\ n_available < pol.min_sizes_in_stock THEN FALSE
    ELSE in_stock

\* the policy with <= for < in the min_sizes_in_stock branch
ApplyPolicy_OffByOne(in_stock, n_available, n_skus, pol) ==
    IF pol.notify_only_all_sizes /\ n_available < n_skus THEN FALSE
    ELSE IF pol.min_sizes_in_stock > 0 /\ n_available <= pol.min_sizes_in_stock THEN FALSE
    ELSE in_stock

\* lines 415-428
ApplyPolicy(in_stock, n_available, n_skus, pol) ==
    IF pol.notify_only_all_sizes /\ n_available < n_skus THEN FALSE
    ELSE IF pol.min_sizes_in_stock > 0 /\ n_available < pol.min_sizes_in_stock THEN FALSE
    ELSE in_stock

\* what the API path returns: None, or the result dictionary
ApiNone == [ok |-> FALSE, in_stock |-> FALSE, available_sizes |-> <<>>, method |-> "none"]

\* a result built without sorted()
sorted_sizes_AsGiven(available_sizes) == available_sizes

\* line 521: sorted(available_sizes)
sorted_sizes(available_sizes) == SortedStrs(available_sizes)

\* lines 382-383: available_sizes = [], in_stock = False
FreshLocals == [available_sizes |-> <<>>, in_stock |-> FALSE, raised |-> FALSE]

\* a result whose in_stock starts out true instead of being raised by an
\* available entry
NormalizeFrom_FlagSet(skus, from_page, pol, acc0) ==
    IF skus = <<>> THEN ApiNone
    ELSE
        LET mapping == SizeMapping(skus, from_page)
            scan == ScanSkus(skus, mapping, acc0)
        IN  IF scan.raised THEN ApiNone
            ELSE [ok |-> TRUE,
                  in_stock |-> ApplyPolicy(TRUE, Len(scan.available_sizes), Len(skus), pol),
                  available_sizes |-> sorted_sizes(scan.available_sizes),
                  method |-> "api"]

\* lines 338-342, 358-428, 516-527 and 544-549: from the parsed answer to the
\* result, the loop starting from the locals acc0
NormalizeFrom(skus, from_page, pol, acc0) ==
    IF skus = <<>> THEN ApiNone
    ELSE
        LET mapping == SizeMapping(skus, from_page)
            scan == ScanSkus(skus, mapping, acc0)
        IN  IF scan.raised THEN ApiNone
            ELSE [ok |-> TRUE,
                  in_stock |-> ApplyPolicy(scan.in_stock, Len(scan.available_sizes),
                                           Len(skus), pol),
                  available_sizes |-> sorted_sizes(scan.available_sizes),
                  method |-> "api"]

\* a normalisation whose accumulators live on the checker and are not reset
NormalizeApi_Stateful(skus, from_page, pol) ==
    NormalizeFrom(skus, from_page, pol,
                  [FreshLocals EXCEPT !.available_sizes = api_result.available_sizes,
                                      !.in_stock = api_result.in_stock])

\* the parsing part of _check_stock_via_api
NormalizeApi(skus, from_page, pol) == NormalizeFrom(skus, from_page, pol, FreshLocals)

----------------------------------------------------------------------------
(* Inputs of the normalisation *)

NotRun == [ok |-> FALSE, in_stock |-> FALSE, available_sizes |-> <<>>, method |-> "notrun"]

CoreStatuses == {AvStr(str_in_stock), AvStr(str_out_of_stock)}

\* the statuses the code names
KnownStatuses == {AvStr(str_in_stock), AvStr(str_low_on_stock), AvStr(str_out_of_stock)}

\* a status in another case, a status the code does not know, an entry
\* without the key, an entry whose value is JSON null
OddStatuses == {AvStr(str_IN_STOCK), AvStr(str_coming_soon), AvAbsent, AvNull}

SkuIds == {100, 200, 300, 400}

RepeatedIds == {100, 200}

Answer(n, id, st) == [i \in 1..n |-> [sku |-> id[i], availability |-> st[i]]]

\* answers whose SKU ids ascend, with every status the code names
AscendingAnswers ==
    UNION { { Answer(n, [i \in 1..n |-> 100 * i], st) : st \in [1..n -> KnownStatuses] } :
              n \in 1..MaxSkus }

\* answers whose SKU ids ascend, one entry with an odd status
OddAnswers ==
    UNION { { Answer(n, [i \in 1..n |-> 100 * i], [st EXCEPT ![k] = odd]) :
                st \in [1..n -> CoreStatuses], k \in 1..n, odd \in OddStatuses } :
              n \in 1..MaxSkus }

\* answers whose SKU ids are distinct and come in any order
AnyOrderAnswers ==
    UNION { { Answer(n, id, st) :
                id \in {f \in [1..n -> SkuIds] : \A i, j \in 1..n : f[i] = f[j] => i = j},
                st \in [1..n -> CoreStatuses] } :
              n \in 1..MaxSkus }

\* answers of two or three entries in which a SKU id may occur more than once
RepeatedIdAnswers ==
    UNION { { Answer(n, id, st) : id \in [1..n -> RepeatedIds], st \in [1..n -> CoreStatuses] } :
              n \in {2, 3} }

ShortAnswers == AscendingAnswers \cup OddAnswers \cup AnyOrderAnswers \cup RepeatedIdAnswers

\* long answers: the ids 100..100*n rotated by r, ascending or descending,
\* all with the same status
LongAnswers ==
    { [i \in 1..n |-> [sku |-> 100 * (IF up THEN ((i + r) % n) + 1 ELSE n - ((i + r) % n)),
                       availability |-> st]] :
        n \in (MaxSkus + 1)..MaxLongSkus, r \in {0, 1, 5}, up \in BOOLEAN,
        st \in CoreStatuses }

\* {100: "S", 200: "M"}
PageMappingSM == (100 :> <<83>>) @@ (200 :> <<77>>)

\* {100: "XL", 200: "l", 300: "S", 400: "XL"}
PageMappingMixed == (100 :> <<88, 76>>) @@ (200 :> <<108>>) @@ (300 :> <<83>>) @@ (400 :> <<88, 76>>)

PageMappings == {NoMapping, PageMappingSM, PageMappingMixed}

Policies == [notify_only_all_sizes : BOOLEAN, min_sizes_in_stock : 0..MaxMinSizes]

DefaultPolicy == [notify_only_all_sizes |-> FALSE, min_sizes_in_stock |-> 0]

----------------------------------------------------------------------------
(* check_stock *)

\* what the plain GET of the page and parse_stock_info can yield
HtmlNone == [fetched |-> FALSE, in_stock |-> FALSE, named |-> FALSE]

HtmlPages ==
    {HtmlNone} \cup [fetched : {TRUE}, in_stock : BOOLEAN, named : BOOLEAN]

\* lines 1138-1144
FetchFailed(url) ==
    [url |-> url, error |-> TRUE, in_stock |-> FALSE, available_sizes |-> <<>>,
     method |-> "none"]

\* lines 1117-1158: API first; if it returns nothing, the HTML page
check_stock(url, skus, from_page, html, pol) ==
    LET api == NormalizeApi(skus, from_page, pol)
    IN  IF api.ok
        THEN [url |-> url, error |-> FALSE, in_stock |-> api.in_stock,
              available_sizes |-> api.available_sizes, method |-> "api"]
        ELSE IF ~html.fetched THEN FetchFailed(url)
        ELSE [url |-> url, error |-> ~html.named, in_stock |-> html.in_stock,
              available_sizes |-> <<>>, method |-> "html"]

----------------------------------------------------------------------------
(* send_telegram_notification *)

\* lines 1182-1196: chat_id and chat_ids, duplicates removed
ChatIds(tg) ==
    (IF tg.chat_id # "" THEN {tg.chat_id} ELSE {})
        \cup {tg.chat_ids[i] : i \in 1..Len(tg.chat_ids)}

NothingSent == [posts |-> {}, success_count |-> 0]

\* lines 1160-1304: the chat ids a message is posted to and the number of
\* posts Telegram accepted; outcome[cid] is what the post to cid met
send_telegram_notification(product_info, tg, outcome) ==
    IF ~tg.enabled THEN NothingSent
    ELSE IF tg.bot_token = "" THEN NothingSent
    ELSE IF product_info.error THEN NothingSent
    ELSE IF ChatIds(tg) = {} THEN NothingSent
    ELSE [posts |-> ChatIds(tg),
          success_count |-> Cardinality({cid \in ChatIds(tg) : outcome[cid] = "ok"})]

PostOutcomes == {"ok", "not_ok", "raised"}

----------------------------------------------------------------------------
(* monitor_products *)

\* config['products']
products == <<"u1", "u2">>

Urls == {products[i] : i \in 1..Len(products)}

\* line 1351
DAY == 86400

\* line 1363
ProductDelay == 2

\* line 1366
check_interval == 300

\* the clock when the loop starts
StartTime == 1700000000

\* seconds a check takes on top of the sleeps
Durations == {0, 1, DAY - 2 * ProductDelay - check_interval}

\* last_notified.get(url, {}) with no entry: in_stock None, time 0
Unseen == [known |-> FALSE, in_stock |-> FALSE, time |-> 0]

\* a state_changed that only looks for a missing record
state_changed_FirstOnly(last_state, current_in_stock) == ~last_state.known

\* line 1347
state_changed(last_state, current_in_stock) ==
    ~last_state.known \/ last_state.in_stock # current_in_stock

\* a daily update due from 24 hours on
should_notify_daily_AtDay(last_state, current_time) == current_time - last_state.time >= DAY

\* lines 1350-1351
should_notify_daily(last_state, current_time) == current_time - last_state.time > DAY

\* what an iteration did: the result it got, the locals last_in_stock is None,
\* state_changed and should_notify_daily, whether send_notification was
\* called, and what the dispatcher posted
NoEvent ==
    [kind |-> "none", url |-> "", in_stock |-> FALSE, error |-> FALSE, time |-> 0,
     first |-> FALSE, state_changed |-> FALSE, daily |-> FALSE,
     invoked |-> FALSE, posts |-> {}, success_count |-> 0]

\* no call of send_telegram_notification in progress
DispatchIdle ==
    [state |-> "idle", dispatcher |-> "checker", tg |-> <<>>, skip_nostock |-> FALSE,
     error |-> FALSE, in_stock |-> FALSE, pending |-> <<>>, posts |-> <<>>,
     success_count |-> 0, reported |-> -1, calls |-> 0]

\* no call of check_stock in progress
CheckIdle ==
    [state |-> "idle", checker |-> "plain", ref |-> <<>>,
     identity |-> [found |-> FALSE, store_id |-> 0, product_id |-> 0],
     api |-> "", page |-> "", tried |-> <<>>, requests |-> <<>>,
     result |-> [error |-> FALSE, in_stock |-> FALSE, name |-> "absent", price |-> "absent",
                 method |-> "none"],
     calls |-> 0]

FetchIdle ==
    [state |-> "idle", browserless |-> FALSE, driver |-> "live", retry |-> TRUE,
     op |-> "timeout", attempt |-> 0, exc |-> "none", created |-> 0,
     result |-> "none", fetches |-> 0]

SurfaceIdle ==
    [state |-> "idle", kind |-> "check", skip_nostock |-> FALSE,
     tg |-> [enabled |-> FALSE, bot_token |-> "", chat_id |-> "", chat_ids |-> <<>>],
     refs |-> <<>>, checked |-> <<>>, events |-> <<>>, earlier |-> <<>>, runs |-> 0]

ParseIdle ==
    [state |-> "idle", sizes |-> <<>>, out_of_stock_button |-> FALSE, text |-> <<>>,
     result |-> [in_stock |-> FALSE, available_sizes |-> <<>>]]

\* no check core has run: neither ZaraStockChecker of zara_stock_checker.py nor
\* ZaraStockChecker of run_and_notify.py
CoresIdle == [state |-> "idle", main |-> NotRun, script |-> NotRun]

\* the request threads of the server started by app.run()
Threads == {"t1", "t2"}

\* app.py line 15: checker = None, no request in progress
ServeIdle ==
    [checker |-> 0, created |-> 0, arrived |-> 0,
     pc |-> [t \in Threads |-> "idle"],
     checker_instance |-> [t \in Threads |-> 0],
     products |-> [t \in Threads |-> 0]]

\* config.json without recipients, no registration bot running
RegistryIdle ==
    [config |-> [chat_ids |-> <<>>, chat_id |-> "", enabled |-> FALSE],
     bot_running |-> FALSE,
     bot_config |-> [chat_ids |-> <<>>, chat_id |-> "", enabled |-> FALSE],
     op |-> [kind |-> "none", ids |-> <<>>],
     ops |-> 0]

\* telegram_bot.py line 24: last_update_id = 0, nothing asked, nothing handled
BotIdle ==
    [last_update_id |-> 0, sent |-> 0, updates |-> <<>>, handled |-> <<>>,
     pc |-> "get_updates", poll |-> "none", offset |-> 0, polls |-> 0]

\* the machines of the later sections at rest
AuxIdle ==
    /\ parse = ParseIdle
    /\ cores = CoresIdle
    /\ serve = ServeIdle
    /\ registry = RegistryIdle
    /\ bot = BotIdle

TelegramConfigs ==
    {[enabled |-> TRUE, bot_token |-> "token", chat_id |-> "c1", chat_ids |-> <<"c1", "c2">>],
     [enabled |-> FALSE, bot_token |-> "token", chat_id |-> "c1", chat_ids |-> <<"c1", "c2">>],
     [enabled |-> TRUE, bot_token |-> "", chat_id |-> "c1", chat_ids |-> <<>>],
     [enabled |-> TRUE, bot_token |-> "token", chat_id |-> "", chat_ids |-> <<>>]}

\* the answers the availability API gives in the loop; <<>> stands for a
\* failed call as well (the API path returns None for both)
LoopAnswers ==
    {<<>>,
     <<[sku |-> 100, availability |-> AvStr(str_in_stock)],
       [sku |-> 200, availability |-> AvStr(str_out_of_stock)]>>,
     <<[sku |-> 100, availability |-> AvStr(str_out_of_stock)],
       [sku |-> 200, availability |-> AvStr(str_out_of_stock)]>>}

Init ==
    /\ telegram \in TelegramConfigs
    /\ policy = DefaultPolicy
    /\ last_notified = [u \in Urls |-> Unseen]
    /\ idx = 1
    /\ now = StartTime
    /\ checks = 0
    /\ event = NoEvent
    /\ dispatch = DispatchIdle
    /\ chk = CheckIdle
    /\ bfetch = FetchIdle
    /\ surface = SurfaceIdle
    /\ AuxIdle
    /\ skus_availability = <<>>
    /\ page_mapping = NoMapping
    /\ size_mapping = NoMapping
    /\ api_result = NotRun
    /\ prev_result = NotRun
    /\ calls = 0

\* what check_stock can return for url, over the answers of the API and of the page
CheckResults(url) ==
    {check_stock(url, skus, NoMapping, html, policy) : skus \in LoopAnswers, html \in HtmlPages}

\* what send_notification can do with product_info, over the fates of the posts
Deliveries(product_info) ==
    {send_telegram_notification(product_info, telegram, outcome) :
        outcome \in [ChatIds(telegram) -> PostOutcomes]}

\* lines 1363-1368: sleep(2) after each product, the interval after the last
Advance(duration) ==
    /\ now' = now + duration + ProductDelay
                + (IF idx = Len(products) THEN check_interval ELSE 0)
    /\ idx' = IF idx = Len(products) THEN 1 ELSE idx + 1
    /\ checks' = checks + 1

\* lines 1323-1358 and 1363: one iteration whose check returns a result
CheckProduct ==
    /\ checks < MaxChecks
    /\ \E stock_info \in CheckResults(products[idx]), duration \in Durations :
        LET url == stock_info.url
            current_in_stock == stock_info.in_stock
            last_state == last_notified[url]
            current_time == now + duration
            changed == state_changed(last_state, current_in_stock)
            daily == should_notify_daily(last_state, current_time)
            notify == changed \/ daily
        IN  \E sent \in (IF notify THEN Deliveries(stock_info) ELSE {NothingSent}) :
            /\ last_notified' =
                IF notify
                THEN [last_notified EXCEPT ![url] =
                        [known |-> TRUE, in_stock |-> current_in_stock, time |-> current_time]]
                ELSE last_notified
            /\ event' = [kind |-> "check", url |-> url, in_stock |-> current_in_stock,
                         error |-> stock_info.error, time |-> current_time,
                         first |-> ~last_state.known, state_changed |-> changed,
                         daily |-> daily, invoked |-> notify,
                         posts |-> sent.posts, success_count |-> sent.success_count]
            /\ Advance(duration)
    /\ UNCHANGED <<norm_vars, telegram, more_vars, aux_vars>>

\* lines 1360-1363: one iteration whose check raises
CheckRaises ==
    /\ checks < MaxChecks
    /\ \E duration \in Durations :
        /\ event' = [NoEvent EXCEPT !.kind = "raised", !.url = products[idx],
                                    !.time = now + duration]
        /\ Advance(duration)
    /\ UNCHANGED <<norm_vars, telegram, last_notified, more_vars, aux_vars>>

Next == CheckProduct \/ CheckRaises

Spec == Init /\ [][Next]_vars

----------------------------------------------------------------------------
(* The normalisation on its own *)

InitNorm ==
    /\ \/ /\ skus_availability \in ShortAnswers
          /\ page_mapping \in PageMappings
          /\ policy \in Policies
       \/ /\ skus_availability \in LongAnswers
          /\ page_mapping = NoMapping
          /\ policy \in {DefaultPolicy, [DefaultPolicy EXCEPT !.notify_only_all_sizes = TRUE]}
    /\ size_mapping = NoMapping
    /\ api_result = NotRun
    /\ prev_result = NotRun
    /\ calls = 0
    /\ telegram = [enabled |-> FALSE, bot_token |-> "", chat_id |-> "", chat_ids |-> <<>>]
    /\ last_notified = [u \in Urls |-> Unseen]
    /\ idx = 1
    /\ now = StartTime
    /\ checks = 0
    /\ event = NoEvent
    /\ dispatch = DispatchIdle
    /\ chk = CheckIdle
    /\ bfetch = FetchIdle
    /\ surface = SurfaceIdle
    /\ AuxIdle

\* one run of the parsing part of _check_stock_via_api on the same answer
ApiCheck ==
    /\ calls < MaxCalls
    /\ size_mapping' = SizeMapping(skus_availability, page_mapping)
    /\ api_result' = NormalizeApi(skus_availability, page_mapping, policy)
    /\ prev_result' = api_result
    /\ calls' = calls + 1
    /\ UNCHANGED <<skus_availability, page_mapping, policy, loop_vars, more_vars, aux_vars>>

NextNorm == ApiCheck

SpecNorm == InitNorm /\ [][NextNorm]_vars

----------------------------------------------------------------------------
(* The other parts at rest *)

NormIdle ==
    /\ skus_availability = <<>>
    /\ page_mapping = NoMapping
    /\ policy = DefaultPolicy
    /\ size_mapping = NoMapping
    /\ api_result = NotRun
    /\ prev_result = NotRun
    /\ calls = 0

LoopIdle ==
    /\ telegram = [enabled |-> FALSE, bot_token |-> "", chat_id |-> "", chat_ids |-> <<>>]
    /\ last_notified = [u \in Urls |-> Unseen]
    /\ idx = 1
    /\ now = StartTime
    /\ checks = 0
    /\ event = NoEvent

----------------------------------------------------------------------------
(* send_telegram_notification, one post at a time *)

\* calls of the dispatcher that are followed
MaxNotifies == 2

\* config['telegram'] for the dispatcher on its own: also three recipients,
\* one of them named twice
DispatchConfigs ==
    TelegramConfigs \cup
        {[enabled |-> TRUE, bot_token |-> "token", chat_id |-> "c1",
          chat_ids |-> <<"c1", "c2", "c3">>]}

\* the dispatcher of zara_stock_checker.py and the one of run_and_notify.py
Dispatchers == {"checker", "script"}

\* the orders in which list(set(chat_ids)) can hand out the chat ids
Orders(S) ==
    {o \in [1..Cardinality(S) -> S] : \A i, j \in 1..Cardinality(S) : o[i] = o[j] => i = j}

\* the returns before the loop, variant without the one for a result that
\* carries an error
ReturnsEarly_ErrorPosted(dispatcher, tg, error, in_stock, skip_nostock) ==
    \/ ~tg.enabled
    \/ tg.bot_token = ""
    \/ dispatcher = "script" /\ skip_nostock /\ ~in_stock
    \/ ChatIds(tg) = {}

\* lines 1162-1200, run_and_notify.py 483-519: the returns before the loop
ReturnsEarly(dispatcher, tg, error, in_stock, skip_nostock) ==
    \/ ~tg.enabled
    \/ tg.bot_token = ""
    \/ error
    \/ dispatcher = "script" /\ skip_nostock /\ ~in_stock
    \/ ChatIds(tg) = {}

\* a loop body without its own try: the exception of a post ends the loop in
\* the handler of the outer try
AfterPost_NoTry(d, outcome) ==
    IF outcome = "raised"
    THEN [d EXCEPT !.state = "returned", !.pending = <<>>,
                   !.posts = Append(@, [cid |-> Head(d.pending), outcome |-> outcome])]
    ELSE [d EXCEPT !.pending = Tail(@),
                   !.posts = Append(@, [cid |-> Head(d.pending), outcome |-> outcome]),
                   !.success_count = IF outcome = "ok" THEN @ + 1 ELSE @]

\* lines 1266-1296: the loop body for the chat id at the head; the post is
\* accepted ("ok"), answered with ok = false ("not_ok"), or raises
AfterPost(d, outcome) ==
    [d EXCEPT !.pending = Tail(@),
              !.posts = Append(@, [cid |-> Head(d.pending), outcome |-> outcome]),
              !.success_count = IF outcome = "ok" THEN @ + 1 ELSE @]

InitNotify ==
    /\ dispatch = DispatchIdle
    /\ chk = CheckIdle
    /\ bfetch = FetchIdle
    /\ surface = SurfaceIdle
    /\ AuxIdle
    /\ NormIdle
    /\ LoopIdle

\* lines 1160-1254: the call, up to the loop
NotifyCall ==
    /\ dispatch.state \in {"idle", "returned"}
    /\ dispatch.calls < MaxNotifies
    /\ \E dispatcher \in Dispatchers, tg \in DispatchConfigs, error \in BOOLEAN, in_stock \in BOOLEAN :
        \E skip_nostock \in (IF dispatcher = "script" THEN BOOLEAN ELSE {FALSE}) :
            LET call == [DispatchIdle EXCEPT !.dispatcher = dispatcher, !.tg = tg,
                                             !.skip_nostock = skip_nostock, !.error = error,
                                             !.in_stock = in_stock, !.calls = dispatch.calls + 1]
            IN  IF ReturnsEarly(dispatcher, tg, error, in_stock, skip_nostock)
                THEN dispatch' = [call EXCEPT !.state = "returned"]
                ELSE \E order \in Orders(ChatIds(tg)) :
                        dispatch' = [call EXCEPT !.state = "sending", !.pending = order]
    /\ UNCHANGED <<norm_vars, loop_vars, chk, bfetch, surface, aux_vars>>

\* lines 1266-1296: one requests.post
PostMessage ==
    /\ dispatch.state = "sending"
    /\ dispatch.pending # <<>>
    /\ \E outcome \in PostOutcomes : dispatch' = AfterPost(dispatch, outcome)
    /\ UNCHANGED <<norm_vars, loop_vars, chk, bfetch, surface, aux_vars>>

\* lines 1298-1302: the count is printed and the call returns
NotifyReturn ==
    /\ dispatch.state = "sending"
    /\ dispatch.pending = <<>>
    /\ dispatch' = [dispatch EXCEPT !.state = "returned", !.reported = dispatch.success_count]
    /\ UNCHANGED <<norm_vars, loop_vars, chk, bfetch, surface, aux_vars>>

NextNotify == NotifyCall \/ PostMessage \/ NotifyReturn

SpecNotify == InitNotify /\ [][NextNotify]_vars

----------------------------------------------------------------------------
(* _extract_product_info_from_url *)

\* int(s) for a string of decimal digits
RECURSIVE StrToInt(_)
StrToInt(s) ==
    IF s = <<>> THEN 0
    ELSE 10 * StrToInt(SubSeq(s, 1, Len(s) - 1)) + (s[Len(s)] - 48)

\* line 90: the store used when the country is missing or not in the table
DefaultStore == 10706

\* lines 65-85
store_map ==
    [c \in {"uk", "gb"} |-> 10706] @@ ("us" :> 10701) @@ ("es" :> 10702) @@ ("fr" :> 10703)
        @@ ("it" :> 10704) @@ ("de" :> 10705) @@ ("nl" :> 10707) @@ ("be" :> 10708)
        @@ ("pt" :> 10709) @@ ("pl" :> 10710) @@ ("cz" :> 10711) @@ ("at" :> 10712)
        @@ ("ch" :> 10713) @@ ("ie" :> 10714) @@ ("dk" :> 10715) @@ ("se" :> 10716)
        @@ ("no" :> 10717) @@ ("fi" :> 10718)

StoreCodes == {store_map[c] : c \in DOMAIN store_map}

\* lines 94-97
known_products == ("wool-double-breasted-coat-p08475319" :> 483276547)

\* A reference, by what the regular expressions of the resolver find in it:
\* itxrest: it contains '/itxrest/' and '/availability' (line 263);
\* api_match: the digit groups of /store/(\d+)/product/id/(\d+)/availability;
\* country: the group of /([a-z]{2})/en/; slug: the group of /([^/]+-p\d+)\.html
Reference(itxrest, api_match, country, slug) ==
    [itxrest |-> itxrest, api_match |-> api_match, country |-> country, slug |-> slug]

NoMatch == <<>>

References ==
    {Reference(FALSE, NoMatch, "uk", "wool-double-breasted-coat-p08475319"),
     Reference(FALSE, NoMatch, "fr", "shirt-p01234567"),
     Reference(FALSE, NoMatch, "xx", "shirt-p01234567"),
     Reference(FALSE, NoMatch, "", ""),
     Reference(TRUE, <<IntToStr(10706), IntToStr(483276547)>>, "", ""),
     Reference(TRUE, <<IntToStr(99999), <<48>>>>, "", ""),
     Reference(TRUE, NoMatch, "", ""),
     Reference(FALSE, <<<<48, 49, 48, 55, 48, 54>>, <<48, 48>>>>, "", "")}

\* The answer to the GET of line 118, by what the patterns of lines 123-173
\* find in its body: productId, generic (product[_-]?id), path
\* (/product/id/(\d+)), availability (the two groups of the availability
\* path) and state_id (the id found in a window.__PRELOADED_STATE__ object, 0
\* for none). A body with an availability path has the path fragment too.
PageAnswer(status, productId, generic, path, availability, state_id) ==
    [status |-> status, productId |-> productId, generic |-> generic, path |-> path,
     availability |-> availability, state_id |-> state_id]

ResolverPages ==
    {PageAnswer("raised", NoMatch, NoMatch, NoMatch, NoMatch, 0),
     PageAnswer("404", NoMatch, NoMatch, NoMatch, NoMatch, 0),
     PageAnswer("200", NoMatch, NoMatch, NoMatch, NoMatch, 0),
     PageAnswer("200", IntToStr(7), IntToStr(8), NoMatch, NoMatch, 0),
     PageAnswer("200", <<48>>, NoMatch, NoMatch, NoMatch, 0),
     PageAnswer("200", NoMatch, IntToStr(12), NoMatch, NoMatch, 0),
     PageAnswer("200", NoMatch, NoMatch, IntToStr(5), <<IntToStr(99999), IntToStr(5)>>, 0),
     PageAnswer("200", NoMatch, NoMatch, NoMatch, NoMatch, -5)}

NoIdentity == [found |-> FALSE, store_id |-> 0, product_id |-> 0]

Identity(store_id, product_id) == [found |-> TRUE, store_id |-> store_id, product_id |-> product_id]

\* the reference is resolved without a GET of the page
ResolvedFromUrl(ref) == ref.api_match # NoMatch \/ ref.slug \in DOMAIN known_products

\* a resolver that answers a page it could not fetch with the identity of the
\* known product instead of a failure
extract_product_info_from_url_Guess(checker, ref, page) ==
    IF ref.api_match # NoMatch
    THEN Identity(StrToInt(ref.api_match[1]), StrToInt(ref.api_match[2]))
    ELSE LET country == IF ref.country # "" THEN ref.country ELSE "uk"
             store_id == IF country \in DOMAIN store_map THEN store_map[country]
                         ELSE DefaultStore
         IN  IF ref.slug \in DOMAIN known_products
             THEN Identity(store_id, known_products[ref.slug])
             ELSE IF page.status # "200" THEN Identity(store_id, 483276547)
             ELSE IF page.productId # NoMatch THEN Identity(store_id, StrToInt(page.productId))
             ELSE NoIdentity

\* lines 53-187 (run_and_notify.py 54-114, which has no state patterns)
extract_product_info_from_url(checker, ref, page) ==
    IF ref.api_match # NoMatch
    THEN Identity(StrToInt(ref.api_match[1]), StrToInt(ref.api_match[2]))
    ELSE LET country == IF ref.country # "" THEN ref.country ELSE "uk"
             store_id == IF country \in DOMAIN store_map THEN store_map[country]
                         ELSE DefaultStore
         IN  IF ref.slug \in DOMAIN known_products
             THEN Identity(store_id, known_products[ref.slug])
             ELSE IF page.status # "200" THEN NoIdentity
             ELSE IF page.productId # NoMatch THEN Identity(store_id, StrToInt(page.productId))
             ELSE IF page.generic # NoMatch THEN Identity(store_id, StrToInt(page.generic))
             ELSE IF page.path # NoMatch THEN Identity(store_id, StrToInt(page.path))
             ELSE IF page.availability # NoMatch
             THEN Identity(StrToInt(page.availability[1]), StrToInt(page.availability[2]))
             ELSE IF checker = "plain" /\ page.state_id # 0 THEN Identity(store_id, page.state_id)
             ELSE NoIdentity

----------------------------------------------------------------------------
(* check_stock, one request at a time *)

\* calls of check_stock that are followed
MaxCheckCalls == 2

\* zara_stock_checker.ZaraStockChecker, ZaraStockCheckerBrowser and
\* run_and_notify.ZaraStockChecker
Checkers == {"plain", "browser", "script"}

\* a GET: the url (the reference, the availability endpoint built from the
\* identity, or the page of known_product_pages), the call site, verify, and
\* what the request met
Request(url, by, verify, met) == [url |-> url, by |-> by, verify |-> verify, met |-> met]

\* what the availability endpoint answers to the GET of line 317
ApiAnswer(kind, skus) == [kind |-> kind, skus |-> skus]

NullStatusAnswer == <<[sku |-> 100, availability |-> AvNull]>>

ApiAnswers ==
    {ApiAnswer("raised", <<>>), ApiAnswer("status_500", <<>>), ApiAnswer("not_json", <<>>)}
        \cup {ApiAnswer("payload", skus) : skus \in LoopAnswers \cup {NullStatusAnswer}}

\* what parse_stock_info finds in a page: the name is a string, '' or None;
\* the price is always a string ('N/A' when none is found, line 1083)
ParsedPages == [in_stock : BOOLEAN, name : {"str", "empty", "null"}]

\* what the GET of line 616 meets
FetchAnswers ==
    {[kind |-> k, in_stock |-> FALSE, name |-> "null"] :
        k \in {"ssl_error", "request_error", "bot_page", "empty"}}
        \cup {[kind |-> "html", in_stock |-> pg.in_stock, name |-> pg.name] : pg \in ParsedPages}

\* lines 1138-1144, run_and_notify.py 473-479
FetchFailedResult ==
    [error |-> TRUE, in_stock |-> FALSE, name |-> "null", price |-> "null", method |-> "none"]

\* zara_stock_checker_browser.py 672-677: no name and no price key
BrowserFailedResult ==
    [error |-> TRUE, in_stock |-> FALSE, name |-> "absent", price |-> "absent", method |-> "none"]

\* lines 516-527: name or 'Unknown Product', price or 'N/A'
ApiResult(in_stock) ==
    [error |-> FALSE, in_stock |-> in_stock, name |-> "str", price |-> "str", method |-> "api"]

\* lines 1146-1158: the parsed page, tagged with an error when it has no name
ParsedResult(pg) ==
    [error |-> pg.name # "str", in_stock |-> pg.in_stock, name |-> pg.name, price |-> "str",
     method |-> "html"]

\* zara_stock_checker_browser.py 679-687: the parsed page as it is
BrowserResult(pg) ==
    [error |-> FALSE, in_stock |-> pg.in_stock, name |-> pg.name, price |-> "str",
     method |-> "browser"]

Returned(c, result) == [c EXCEPT !.state = "done", !.result = result]

\* lines 1125-1135: _check_stock_via_api returned None; run_and_notify.py
\* 463-479 returns the failure at once
ApiPathEnds(c, why) ==
    IF c.checker = "plain"
    THEN [c EXCEPT !.api = why, !.state = "html", !.tried = Append(@, "html")]
    ELSE Returned([c EXCEPT !.api = why], FetchFailedResult)

\* lines 326-342 and 544-549: why the API path returns None on an answer
ApiFailure(answer) ==
    IF answer.kind = "raised" THEN "request_error"
    ELSE IF answer.kind = "status_500" THEN "status"
    ELSE IF answer.kind = "not_json" THEN "malformed"
    ELSE IF answer.skus = <<>> THEN "empty"
    ELSE IF ~NormalizeApi(answer.skus, NoMapping, DefaultPolicy).ok THEN "malformed"
    ELSE "ok"

\* lines 273-276
known_product_pages == (483276547 :> "known_page")

\* lines 360 and 448-453: the GETs of the size mapping and of the name
PageRequestsOfApi(c) ==
    LET known == c.ref.itxrest /\ c.identity.product_id \in DOMAIN known_product_pages
    IN  <<Request(IF c.checker = "script" /\ known THEN "known_page" ELSE "reference",
                  "mapper", TRUE, "unobserved")>>
            \o (IF ~c.ref.itxrest THEN <<Request("reference", "name", TRUE, "unobserved")>>
                ELSE IF known THEN <<Request("known_page", "name", TRUE, "unobserved")>>
                ELSE <<>>)

\* a fetch whose second GET follows any failed request
AfterFetch_RetryAny(c, answer) ==
    IF answer.kind \in {"ssl_error", "request_error"} /\ c.state = "html"
    THEN [c EXCEPT !.state = "html_retry"]
    ELSE IF answer.kind = "html"
    THEN Returned([c EXCEPT !.page = IF answer.name = "str" THEN "named" ELSE "unnamed"],
                  ParsedResult(answer))
    ELSE Returned([c EXCEPT !.page = "no_html"], FetchFailedResult)

\* lines 614-645 and 1135-1158: what follows the answer to a GET of
\* fetch_product_page; an SSLError on the verified GET leads to a second GET
AfterFetch(c, answer) ==
    IF answer.kind = "ssl_error" /\ c.state = "html"
    THEN [c EXCEPT !.state = "html_retry"]
    ELSE IF answer.kind = "html"
    THEN Returned([c EXCEPT !.page = IF answer.name = "str" THEN "named" ELSE "unnamed"],
                  ParsedResult(answer))
    ELSE Returned([c EXCEPT !.page = "no_html"], FetchFailedResult)

InitCheck ==
    /\ chk = CheckIdle
    /\ dispatch = DispatchIdle
    /\ bfetch = FetchIdle
    /\ surface = SurfaceIdle
    /\ AuxIdle
    /\ NormIdle
    /\ LoopIdle

\* lines 1117-1125, zara_stock_checker_browser.py 666-670: the call
CheckCall ==
    /\ chk.state \in {"idle", "done"}
    /\ chk.calls < MaxCheckCalls
    /\ \E checker \in Checkers, ref \in References :
        chk' = [CheckIdle EXCEPT !.checker = checker, !.ref = ref, !.calls = chk.calls + 1,
                                 !.state = IF checker = "browser" THEN "browser" ELSE "resolve",
                                 !.tried = IF checker = "browser" THEN <<"browser">>
                                           ELSE <<"api">>]
    /\ UNCHANGED <<norm_vars, loop_vars, dispatch, bfetch, surface, aux_vars>>

\* lines 261-300: the identity from the reference, or from its page
ResolveIdentity ==
    /\ chk.state = "resolve"
    /\ IF chk.ref.itxrest
       THEN chk' = IF chk.ref.api_match # NoMatch
                   THEN [chk EXCEPT !.state = "api",
                                    !.identity = Identity(StrToInt(chk.ref.api_match[1]),
                                                          StrToInt(chk.ref.api_match[2]))]
                   ELSE ApiPathEnds(chk, "unresolved")
       ELSE \E page \in (IF ResolvedFromUrl(chk.ref) THEN {CHOOSE pg \in ResolverPages : pg.status = "404"}
                         ELSE ResolverPages) :
            LET id == extract_product_info_from_url(chk.checker, chk.ref, page)
                c == [chk EXCEPT !.identity = id,
                                 !.requests = IF ResolvedFromUrl(chk.ref) THEN @
                                              ELSE Append(@, Request("reference", "resolver", TRUE, page.status))]
            IN  chk' = IF id.found THEN [c EXCEPT !.state = "api"]
                       ELSE ApiPathEnds(c, "unresolved")
    /\ UNCHANGED <<norm_vars, loop_vars, dispatch, bfetch, surface, aux_vars>>

\* lines 315-549: the GET of the availability endpoint and what follows it
CallApi ==
    /\ chk.state = "api"
    /\ \E answer \in ApiAnswers :
        LET c == [chk EXCEPT !.requests =
                      Append(@, Request(IF chk.ref.itxrest THEN "reference" ELSE "api_url",
                                        "api", TRUE, answer.kind))]
            why == ApiFailure(answer)
        IN  chk' = IF why = "ok"
                   THEN Returned([c EXCEPT !.api = "ok", !.requests = @ \o PageRequestsOfApi(c)],
                                 ApiResult(NormalizeApi(answer.skus, NoMapping, DefaultPolicy).in_stock))
                   ELSE ApiPathEnds(c, why)
    /\ UNCHANGED <<norm_vars, loop_vars, dispatch, bfetch, surface, aux_vars>>

\* lines 616-626: the verified GET of the page, and the parse of what it got
FetchPage ==
    /\ chk.state = "html"
    /\ \E answer \in FetchAnswers :
        chk' = AfterFetch([chk EXCEPT !.requests =
                              Append(@, Request("reference", "fetch", TRUE, answer.kind))],
                          answer)
    /\ UNCHANGED <<norm_vars, loop_vars, dispatch, bfetch, surface, aux_vars>>

\* lines 627-642: the GET with verify=False after an SSLError
FetchPageUnverified ==
    /\ chk.state = "html_retry"
    /\ \E answer \in FetchAnswers :
        chk' = AfterFetch([chk EXCEPT !.requests =
                              Append(@, Request("reference", "fetch", FALSE, answer.kind))],
                          answer)
    /\ UNCHANGED <<norm_vars, loop_vars, dispatch, bfetch, surface, aux_vars>>

\* zara_stock_checker_browser.py 670-687: the browser fetch and the parse
BrowserCheck ==
    /\ chk.state = "browser"
    /\ \/ chk' = Returned([chk EXCEPT !.page = "no_html"], BrowserFailedResult)
       \/ \E pg \in ParsedPages :
            chk' = Returned([chk EXCEPT !.page = IF pg.name = "str" THEN "named" ELSE "unnamed"],
                            BrowserResult(pg))
    /\ UNCHANGED <<norm_vars, loop_vars, dispatch, bfetch, surface, aux_vars>>

NextCheck ==
    CheckCall \/ ResolveIdentity \/ CallApi \/ FetchPage \/ FetchPageUnverified \/ BrowserCheck

SpecCheck == InitCheck /\ [][NextCheck]_vars

----------------------------------------------------------------------------
(* ZaraStockCheckerBrowser.fetch_product_page, one driver call at a time *)

\* fetches that are followed
MaxFetches == 2

\* _is_dead_driver_error, lines 535-545: an exception is judged by its
\* message only; "dead" stands for a message with one of the listed
\* fragments, "other" for any other message
ErrorKinds == {"dead", "other"}

is_dead_driver_error(e) == e = "dead"

\* the driver operations of one fetch, in the order of lines 617, 621, 639
NextOp(op) == IF op = "timeout" THEN "get" ELSE "source"

\* _setup_driver, lines 361-533: a handle is created, or the exception of
\* the creation is raised again (line 533) and self.driver stays None
SetupOutcomes ==
    {[driver |-> "live", made |-> 1, exc |-> "none"]}
    \cup {[driver |-> "none", made |-> 0, exc |-> e] : e \in ErrorKinds}

\* _ensure_driver_valid, lines 547-583: the outcomes of one call
ensure_driver_valid(driver, skip_check) ==
    IF driver = "none" \/ skip_check
    THEN SetupOutcomes
    ELSE \* line 570: current_window_handle answers, or raises
         {[driver |-> "live", made |-> 0, exc |-> "none"]}
         \cup SetupOutcomes
         \cup {[driver |-> "live", made |-> 0, exc |-> "other"]}

\* an exception leaves _safe: the call of line 617 is guarded by the outer
\* handler only, those of lines 621 and 639 by their own handler first
Raised(b, e) ==
    [b EXCEPT !.state = IF b.op = "timeout" THEN "outer" ELSE "inner", !.exc = e]

\* the recursive call fetch_product_page(url, retry=False), lines 629, 647, 661
Refetch(b) ==
    [b EXCEPT !.state = "ensure", !.retry = FALSE, !.op = "timeout",
              !.attempt = 0, !.exc = "none"]

FetchReturned(b, result) ==
    [b EXCEPT !.state = "returned", !.result = result, !.exc = "none"]

InitBrowser ==
    /\ bfetch \in {FetchIdle,
                   [FetchIdle EXCEPT !.browserless = TRUE, !.driver = "none"]}
    /\ dispatch = DispatchIdle
    /\ chk = CheckIdle
    /\ surface = SurfaceIdle
    /\ AuxIdle
    /\ NormIdle
    /\ LoopIdle

\* lines 604-617: the call, up to the first driver operation
FetchCall ==
    /\ bfetch.state \in {"idle", "returned", "raised"}
    /\ bfetch.fetches < MaxFetches
    /\ bfetch' = [bfetch EXCEPT !.state = IF bfetch.browserless THEN "remote" ELSE "ensure",
                                !.retry = TRUE, !.op = "timeout", !.attempt = 0,
                                !.exc = "none", !.created = 0, !.result = "none",
                                !.fetches = @ + 1]
    /\ UNCHANGED <<norm_vars, loop_vars, dispatch, chk, surface, aux_vars>>

\* lines 607-612: the Browserless fetch, its exceptions caught
BrowserlessFetch ==
    /\ bfetch.state = "remote"
    /\ \E result \in {"html", "no_html"} : bfetch' = FetchReturned(bfetch, result)
    /\ UNCHANGED <<norm_vars, loop_vars, dispatch, chk, surface, aux_vars>>

\* line 595: _safe makes sure of the handle before each attempt
SafeEnsure ==
    /\ bfetch.state = "ensure"
    /\ \E o \in ensure_driver_valid(bfetch.driver, bfetch.attempt = 1) :
         LET b == [bfetch EXCEPT !.driver = o.driver, !.created = @ + o.made]
         IN  bfetch' = IF o.exc = "none"
                       THEN [b EXCEPT !.state = "op"]
                       ELSE Raised(b, o.exc)
    /\ UNCHANGED <<norm_vars, loop_vars, dispatch, chk, surface, aux_vars>>

\* lines 596-602: one attempt of the operation on the current handle; a dead
\* handle on the first attempt leads to the second, everything else is raised
SafeOp ==
    /\ bfetch.state = "op"
    /\ \/ \* lines 617, 621: the operation returns, the next one follows
          /\ bfetch.op # "source"
          /\ bfetch' = [bfetch EXCEPT !.state = "ensure", !.op = NextOp(@), !.attempt = 0]
       \/ \* lines 639-655: page_source returns a page, or too little (651-652)
          /\ bfetch.op = "source"
          /\ \/ bfetch' = FetchReturned(bfetch, "html")
             \/ bfetch' = [bfetch EXCEPT !.state = "outer", !.exc = "other"]
       \/ \E e \in ErrorKinds :
            bfetch' = IF is_dead_driver_error(e) /\ bfetch.attempt = 0
                      THEN [bfetch EXCEPT !.state = "ensure", !.attempt = 1]
                      ELSE Raised(bfetch, e)
    /\ UNCHANGED <<norm_vars, loop_vars, dispatch, chk, surface, aux_vars>>

\* lines 623-631 and 641-649: the handlers around the page load and the
\* page source; an exception of the recreation goes to the outer handler
LoadError ==
    /\ bfetch.state = "inner"
    /\ IF is_dead_driver_error(bfetch.exc) /\ bfetch.retry
       THEN \E o \in ensure_driver_valid(bfetch.driver, TRUE) :
              LET b == [bfetch EXCEPT !.driver = o.driver, !.created = @ + o.made]
              IN  bfetch' = IF o.exc = "none"
                            THEN Refetch(b)
                            ELSE [b EXCEPT !.state = "outer", !.exc = o.exc]
       ELSE bfetch' = [bfetch EXCEPT !.state = "outer"]
    /\ UNCHANGED <<norm_vars, loop_vars, dispatch, chk, surface, aux_vars>>

\* lines 657-664: the outer handler; an exception of its recreation leaves
\* fetch_product_page
FetchError ==
    /\ bfetch.state = "outer"
    /\ IF bfetch.retry /\ is_dead_driver_error(bfetch.exc)
       THEN \E o \in ensure_driver_valid(bfetch.driver, TRUE) :
              LET b == [bfetch EXCEPT !.driver = o.driver, !.created = @ + o.made]
              IN  bfetch' = IF o.exc = "none"
                            THEN Refetch(b)
                            ELSE [b EXCEPT !.state = "raised", !.exc = o.exc]
       ELSE bfetch' = FetchReturned(bfetch, "no_html")
    /\ UNCHANGED <<norm_vars, loop_vars, dispatch, chk, surface, aux_vars>>

NextBrowser ==
    \/ FetchCall
    \/ BrowserlessFetch
    \/ SafeEnsure
    \/ SafeOp
    \/ LoadError
    \/ FetchError

SpecBrowser == InitBrowser /\ [][NextBrowser]_vars

----------------------------------------------------------------------------
(* The single-shot trigger surfaces: /check and /check/<url> of app.py, the
   handler of api/stock_check.py, the script run_and_notify.py *)

\* invocations that are followed
MaxRequests == 3

MaxOps == 4

MaxUpdates == 3

MaxPolls == 4

MaxProducts == 2

MaxRuns == 2

Surfaces == {"check", "check_single", "stock_check", "script"}

HttpSurfaces == {"check", "check_single", "stock_check"}

\* app.py serves with the checker of get_checker, api/stock_check.py and the
\* script with the class of run_and_notify.py
DispatcherOf(kind) == IF kind \in {"stock_check", "script"} THEN "script" ELSE "checker"

\* what check_stock can return, by the fields the surfaces read: the checker
\* of run_and_notify.py returns an API result or its failure result, those
\* of app.py also parsed pages, which carry an error only when unnamed
StockResults(kind) ==
    IF DispatcherOf(kind) = "script"
    THEN {[error |-> FALSE, in_stock |-> b, named |-> TRUE] : b \in BOOLEAN}
         \cup {[error |-> TRUE, in_stock |-> FALSE, named |-> FALSE]}
    ELSE {r \in [error : BOOLEAN, in_stock : BOOLEAN, named : BOOLEAN] : r.error => ~r.named}

\* app.py 100-104 and 177-181
should_send(skip_nostock, current_in_stock) == ~(skip_nostock /\ ~current_in_stock)

\* api/stock_check.py 62
should_notify(skip_nostock, current_in_stock) ==
    current_in_stock \/ (~current_in_stock /\ ~skip_nostock)

\* run_and_notify.py 691
telegram_configured(tg) == tg.bot_token # "" /\ tg.chat_ids # <<>>

RaisedEvent(ref) ==
    [ref |-> ref, raised |-> TRUE, returned_error |-> FALSE, error |-> FALSE,
     in_stock |-> FALSE, handed |-> FALSE, sent |-> FALSE]

\* the body of the loop over the references, variant handing a result over
\* only when the earlier invocation saw another in_stock for the reference
Processed_OnChange(s, ref, r) ==
    LET error == r.error \/ (s.kind = "check" /\ ~r.named)
        changed == \A i \in 1..Len(s.earlier) :
                      s.earlier[i].ref = ref /\ ~s.earlier[i].raised
                          => s.earlier[i].in_stock # r.in_stock
        handed == changed /\ should_send(s.skip_nostock, r.in_stock)
    IN  [ref |-> ref, raised |-> FALSE, returned_error |-> r.error, error |-> error,
         in_stock |-> r.in_stock,
         handed |-> handed,
         sent |-> handed /\ ~ReturnsEarly(DispatcherOf(s.kind), s.tg, error,
                                          r.in_stock, s.skip_nostock)]

\* the body of the loop over the references for a result r of check_stock:
\* app.py 84-123 and 168-189, api/stock_check.py 56-80, run_and_notify.py
\* 677-706; returned_error is the error of the result as check_stock returned
\* it, error the one it has when the dispatcher is called, and "sent" says
\* that the dispatcher came to post the message
Processed(s, ref, r) ==
    LET error == r.error \/ (s.kind = "check" /\ ~r.named)
        handed == CASE s.kind \in {"check", "check_single"} ->
                         should_send(s.skip_nostock, r.in_stock)
                    [] s.kind = "stock_check" ->
                         should_notify(s.skip_nostock, r.in_stock)
                    [] s.kind = "script" -> telegram_configured(s.tg)
    IN  [ref |-> ref, raised |-> FALSE, returned_error |-> r.error, error |-> error,
         in_stock |-> r.in_stock,
         handed |-> handed,
         sent |-> handed /\ ~ReturnsEarly(DispatcherOf(s.kind), s.tg, error,
                                          r.in_stock, s.skip_nostock)]

\* the reference the loop is at
CurrentRef(s) == s.refs[Len(s.checked) + 1]

\* the loop goes on to the next reference, or the invocation ends
Continued(s, ev) ==
    [s EXCEPT !.checked = Append(@, ev.ref),
              !.events = Append(@, ev),
              !.state = IF Len(s.checked) + 1 = Len(s.refs) THEN "finished" ELSE "running"]

InitSurface ==
    /\ \E kind \in Surfaces, skip_nostock \in BOOLEAN, tg \in TelegramConfigs :
         surface = [SurfaceIdle EXCEPT !.kind = kind, !.skip_nostock = skip_nostock,
                                       !.tg = tg]
    /\ dispatch = DispatchIdle
    /\ chk = CheckIdle
    /\ bfetch = FetchIdle
    /\ AuxIdle
    /\ NormIdle
    /\ LoopIdle

\* app.py 57-80, api/stock_check.py 38-52, run_and_notify.py 613-670: a
\* request or a run of the script; nothing of the invocation before is
\* kept but what this model records of it in "earlier"
Invoke ==
    /\ surface.state \in {"idle", "finished", "exited"}
    /\ surface.runs < MaxRuns
    /\ \E refs \in IF surface.kind = "script" \/ surface.kind = "stock_check"
                   THEN {products}
                   ELSE IF surface.kind = "check"
                        THEN {products} \cup {<<u>> : u \in Urls}
                        ELSE {<<u>> : u \in Urls} :
         surface' = [surface EXCEPT !.state = "running", !.refs = refs,
                                    !.checked = <<>>, !.events = <<>>,
                                    !.earlier = surface.events, !.runs = @ + 1]
    /\ UNCHANGED <<norm_vars, loop_vars, dispatch, chk, bfetch, aux_vars>>

\* one reference, check_stock returning a result
CheckReference ==
    /\ surface.state = "running"
    /\ \E r \in StockResults(surface.kind) :
         surface' = Continued(surface, Processed(surface, CurrentRef(surface), r))
    /\ UNCHANGED <<norm_vars, loop_vars, dispatch, chk, bfetch, aux_vars>>

\* one reference, check_stock raising: caught for the reference in app.py
\* 124-134 and api/stock_check.py 81-90, by the handler of the whole request
\* in check_single (202-206), and by the handler of the whole script in
\* run_and_notify.py 713-717, which ends the process
CheckReferenceRaises ==
    /\ surface.state = "running"
    /\ LET raised == RaisedEvent(CurrentRef(surface))
       IN  surface' = IF surface.kind = "script"
                      THEN [Continued(surface, raised) EXCEPT !.state = "exited"]
                      ELSE Continued(surface, raised)
    /\ UNCHANGED <<norm_vars, loop_vars, dispatch, chk, bfetch, aux_vars>>

NextSurface ==
    \/ Invoke
    \/ CheckReference
    \/ CheckReferenceRaises

SpecSurface == InitSurface /\ [][NextSurface]_vars

----------------------------------------------------------------------------
(* parse_stock_info: the stock decision on a fetched page *)

\* the sizes the selectors of parse_stock_info found available, in the order
\* found (each size once: every method skips a size already listed)
ParsedSizes == {<<>>, <<"S">>, <<"M">>, <<"S", "M">>, <<"M", "S">>}

\* html.lower() as the words of the page; "3" stands for any digits
PageTexts ==
    {<<>>,
     <<"add", "to", "bag">>,
     <<"few", "items", "left">>,
     <<"few", "items">>,
     <<"only", "3", "left">>,
     <<"low", "stock">>,
     <<"back", "in", "stock">>,
     <<"out", "of", "stock">>}

\* the words occur in the text one after the other
ContainsWords(text, words) ==
    \E i \in 0..(Len(text) - Len(words)) :
        \A j \in 1..Len(words) : text[i + j] = words[j]

\* lines 1029-1047: 'few items left' or 'few items' in the page, or one of
\* the stock_indicators few\s+items\s+left, only\s+\d+\s+left, low\s+stock,
\* in\s+stock
few_items_left(text) ==
    \/ ContainsWords(text, <<"few", "items", "left">>)
    \/ ContainsWords(text, <<"few", "items">>)
    \/ ContainsWords(text, <<"only", "3", "left">>)
    \/ ContainsWords(text, <<"low", "stock">>)
    \/ ContainsWords(text, <<"in", "stock">>)

\* lines 1049-1062 and 1080-1088: the overrides and the fields of the result
parse_stock_info(sizes, out_of_stock_detected, text) ==
    LET has_available_sizes ==
            IF out_of_stock_detected THEN FALSE
            ELSE IF few_items_left(text) /\ ~(Len(sizes) > 0) THEN TRUE
            ELSE Len(sizes) > 0
    IN  [in_stock |-> has_available_sizes,
         available_sizes |-> IF out_of_stock_detected THEN <<>> ELSE sizes]

InitParse ==
    /\ parse = ParseIdle
    /\ cores = CoresIdle
    /\ serve = ServeIdle
    /\ registry = RegistryIdle
    /\ bot = BotIdle
    /\ dispatch = DispatchIdle
    /\ chk = CheckIdle
    /\ bfetch = FetchIdle
    /\ surface = SurfaceIdle
    /\ NormIdle
    /\ LoopIdle

\* lines 760-1027: a page has been fetched and its sizes, its buttons and
\* its text have been read
ReadPage ==
    /\ parse.state \in {"idle", "parsed"}
    /\ \E sizes \in ParsedSizes, button \in BOOLEAN, text \in PageTexts :
         parse' = [ParseIdle EXCEPT !.state = "page", !.sizes = sizes,
                                    !.out_of_stock_button = button, !.text = text]
    /\ UNCHANGED <<norm_vars, loop_vars, more_vars, cores, serve, registry, bot>>

\* lines 1049-1088: the decision and the result
ParseStockInfo ==
    /\ parse.state = "page"
    /\ parse' = [parse EXCEPT !.state = "parsed",
                              !.result = parse_stock_info(parse.sizes,
                                                          parse.out_of_stock_button,
                                                          parse.text)]
    /\ UNCHANGED <<norm_vars, loop_vars, more_vars, cores, serve, registry, bot>>

NextParse == ReadPage \/ ParseStockInfo

SpecParse == InitParse /\ [][NextParse]_vars

----------------------------------------------------------------------------
(* The check core of the trigger surfaces: app.py and the polling loop run
   ZaraStockChecker of zara_stock_checker.py, api/stock_check.py and the
   one-shot script run ZaraStockChecker of run_and_notify.py *)

\* run_and_notify.py lines 248-252, 271-309 and 371-388: from the parsed
\* answer to the result; the checker of the script reads no policy key
NormalizeScript(skus, from_page) ==
    IF skus = <<>> THEN ApiNone
    ELSE
        LET mapping == SizeMapping(skus, from_page)
            scan == ScanSkus(skus, mapping, FreshLocals)
        IN  IF scan.raised THEN ApiNone
            ELSE [ok |-> TRUE,
                  in_stock |-> scan.in_stock,
                  available_sizes |-> sorted_sizes(scan.available_sizes),
                  method |-> "api"]

InitCore ==
    /\ skus_availability \in ShortAnswers
    /\ page_mapping \in PageMappings
    /\ policy \in Policies
    /\ size_mapping = NoMapping
    /\ api_result = NotRun
    /\ prev_result = NotRun
    /\ calls = 0
    /\ LoopIdle
    /\ dispatch = DispatchIdle
    /\ chk = CheckIdle
    /\ bfetch = FetchIdle
    /\ surface = SurfaceIdle
    /\ AuxIdle

\* /check of app.py, monitor_products and main() of zara_stock_checker.py
CheckMain ==
    /\ cores.state = "idle"
    /\ cores' = [cores EXCEPT !.state = "main",
                              !.main = NormalizeApi(skus_availability, page_mapping, policy)]
    /\ UNCHANGED <<norm_vars, loop_vars, more_vars, parse, serve, registry, bot>>

\* /api/stock-check and main() of run_and_notify.py, same reference, same
\* configuration, same answer
CheckScript ==
    /\ cores.state = "main"
    /\ cores' = [cores EXCEPT !.state = "both",
                              !.script = NormalizeScript(skus_availability, page_mapping)]
    /\ UNCHANGED <<norm_vars, loop_vars, more_vars, parse, serve, registry, bot>>

NextCore == CheckMain \/ CheckScript

SpecCore == InitCore /\ [][NextCore]_vars

----------------------------------------------------------------------------
(* app.py: the requests of /check on the server of app.run(), one request
   thread per request, the global checker shared by all of them *)

InitServe ==
    /\ NormIdle
    /\ LoopIdle
    /\ dispatch = DispatchIdle
    /\ chk = CheckIdle
    /\ bfetch = FetchIdle
    /\ surface = SurfaceIdle
    /\ AuxIdle

\* line 55: a request of /check is handed to a free request thread
Arrive(t) ==
    /\ serve.pc[t] = "idle"
    /\ serve.arrived < MaxRequests
    /\ serve' = [serve EXCEPT !.pc[t] = "get_checker", !.arrived = @ + 1]
    /\ UNCHANGED <<norm_vars, loop_vars, more_vars, parse, cores, registry, bot>>

\* lines 19-20 and 47: the test of the global, and the return of an
\* existing checker
TestChecker(t) ==
    /\ serve.pc[t] = "get_checker"
    /\ \E n \in 1..MaxProducts :
          serve' = IF serve.checker = 0
                   THEN [serve EXCEPT !.pc[t] = "create"]
                   ELSE [serve EXCEPT !.pc[t] = "products",
                                      !.checker_instance[t] = serve.checker,
                                      !.products[t] = n]
    /\ UNCHANGED <<norm_vars, loop_vars, more_vars, parse, cores, registry, bot>>

\* lines 22-24, 29-31, 41-43 and 47: a checker is constructed and assigned to
\* the global
CreateChecker(t) ==
    /\ serve.pc[t] = "create"
    /\ \E n \in 1..MaxProducts :
          serve' = [serve EXCEPT !.pc[t] = "products",
                                 !.created = @ + 1,
                                 !.checker = serve.created + 1,
                                 !.checker_instance[t] = serve.created + 1,
                                 !.products[t] = n]
    /\ UNCHANGED <<norm_vars, loop_vars, more_vars, parse, cores, registry, bot>>

\* lines 33-34, 45-46 and 151-155: no checker can be constructed, the request
\* is answered with status 500
CreateFails(t) ==
    /\ serve.pc[t] = "create"
    /\ serve' = [serve EXCEPT !.pc[t] = "idle"]
    /\ UNCHANGED <<norm_vars, loop_vars, more_vars, parse, cores, registry, bot>>

\* lines 82-84: check_stock of the next product begins
BeginCheck(t) ==
    /\ serve.pc[t] = "products"
    /\ serve.products[t] > 0
    /\ serve' = [serve EXCEPT !.pc[t] = "check_stock"]
    /\ UNCHANGED <<norm_vars, loop_vars, more_vars, parse, cores, registry, bot>>

\* lines 84-134: check_stock returns or raises, the result is appended
EndCheck(t) ==
    /\ serve.pc[t] = "check_stock"
    /\ serve' = [serve EXCEPT !.pc[t] = "products", !.products[t] = @ - 1]
    /\ UNCHANGED <<norm_vars, loop_vars, more_vars, parse, cores, registry, bot>>

\* lines 143-149: the response
Respond(t) ==
    /\ serve.pc[t] = "products"
    /\ serve.products[t] = 0
    /\ serve' = [serve EXCEPT !.pc[t] = "idle", !.checker_instance[t] = 0]
    /\ UNCHANGED <<norm_vars, loop_vars, more_vars, parse, cores, registry, bot>>

NextServe ==
    \E t \in Threads :
        \/ Arrive(t)
        \/ TestChecker(t)
        \/ CreateChecker(t)
        \/ CreateFails(t)
        \/ BeginCheck(t)
        \/ EndCheck(t)
        \/ Respond(t)

SpecServe == InitServe /\ [][NextServe]_vars

----------------------------------------------------------------------------
(* telegram_bot.py: the polling loop of the registration bot *)

\* the identifiers from lo to hi in ascending order
UpdateIds(lo, hi) == [i \in 1..(IF hi >= lo THEN hi - lo + 1 ELSE 0) |-> lo + i - 1]

\* the answers getUpdates can give to a request with this offset: the
\* unconfirmed updates from the offset on, oldest first, in one batch or cut
\* short, a body that is not ok, or no answer
Responses(offset, sent) ==
    {[status |-> "ok", result |-> UpdateIds(offset, k)] : k \in (offset - 1)..sent}
        \cup {[status |-> "not_ok", result |-> <<>>], [status |-> "error", result |-> <<>>]}

\* a cursor that moves to the first returned update instead of the last
get_updates_FirstId(last_update_id, response) ==
    IF response.status = "ok"
    THEN [last_update_id |-> IF response.result # <<>> THEN response.result[1]
                             ELSE last_update_id,
          updates |-> response.result]
    ELSE [last_update_id |-> last_update_id, updates |-> <<>>]

\* lines 74-87: the cursor and the returned list after the response
get_updates(last_update_id, response) ==
    IF response.status = "ok"
    THEN [last_update_id |-> IF response.result # <<>>
                             THEN response.result[Len(response.result)]
                             ELSE last_update_id,
          updates |-> response.result]
    ELSE [last_update_id |-> last_update_id, updates |-> <<>>]

PollOutcome(response) ==
    IF response.status # "ok" THEN "failed"
    ELSE IF response.result = <<>> THEN "empty" ELSE "updates"

InitBot ==
    /\ NormIdle
    /\ LoopIdle
    /\ dispatch = DispatchIdle
    /\ chk = CheckIdle
    /\ bfetch = FetchIdle
    /\ surface = SurfaceIdle
    /\ AuxIdle

\* a user writes to the bot: Telegram queues an update with the next identifier
UserWrites ==
    /\ bot.sent < MaxUpdates
    /\ bot' = [bot EXCEPT !.sent = @ + 1]
    /\ UNCHANGED <<norm_vars, loop_vars, more_vars, parse, cores, serve, registry>>

\* lines 62-87 and 218: one call of get_updates
GetUpdates ==
    /\ bot.pc = "get_updates"
    /\ bot.polls < MaxPolls
    /\ \E response \in Responses(bot.last_update_id + 1, bot.sent) :
          LET got == get_updates(bot.last_update_id, response)
          IN  bot' = [bot EXCEPT !.offset = bot.last_update_id + 1,
                                 !.last_update_id = got.last_update_id,
                                 !.updates = got.updates,
                                 !.poll = PollOutcome(response),
                                 !.polls = @ + 1,
                                 !.pc = "for_update"]
    /\ UNCHANGED <<norm_vars, loop_vars, more_vars, parse, cores, serve, registry>>

\* lines 219-221: the next update of the returned list is handled
HandleUpdate ==
    /\ bot.pc = "for_update"
    /\ bot.updates # <<>>
    /\ bot' = [bot EXCEPT !.handled = Append(@, Head(bot.updates)),
                          !.updates = Tail(@)]
    /\ UNCHANGED <<norm_vars, loop_vars, more_vars, parse, cores, serve, registry>>

\* line 223: time.sleep(1), then the next round
Sleep ==
    /\ bot.pc = "for_update"
    /\ bot.updates = <<>>
    /\ bot' = [bot EXCEPT !.pc = "get_updates"]
    /\ UNCHANGED <<norm_vars, loop_vars, more_vars, parse, cores, serve, registry>>

NextBot == UserWrites \/ GetUpdates \/ HandleUpdate \/ Sleep

SpecBot == InitBot /\ [][NextBot]_vars

----------------------------------------------------------------------------
(* Registration of recipients: register_user of telegram_bot.py and of
   api/webhook.py, register_users_from_updates of register_users.py, all
   writing the telegram section of config.json *)

ChatIdentifiers == {"c1", "c2", "c3"}

InList(x, list) == \E i \in 1..Len(list) : list[i] = x

\* the users of one getUpdates answer, duplicates removed (register_users.py
\* lines 98-105)
UniqueUsers ==
    {<<c>> : c \in ChatIdentifiers}
        \cup {u \in ChatIdentifiers \X ChatIdentifiers : u[1] # u[2]}

\* telegram_bot.py lines 125-138: the section of the bot's own copy of the
\* configuration after a new identifier
bot_register(cfg, c) ==
    [chat_ids |-> Append(cfg.chat_ids, c),
     chat_id |-> IF cfg.chat_id = "" THEN c ELSE cfg.chat_id,
     enabled |-> TRUE]

RECURSIVE add_users(_, _)
\* register_users.py lines 166-177: the identifiers not yet in the list are
\* appended in the order of the users
add_users(chat_ids, users) ==
    IF users = <<>> THEN chat_ids
    ELSE add_users(IF InList(Head(users), chat_ids) THEN chat_ids
                   ELSE Append(chat_ids, Head(users)),
                   Tail(users))

InitRegistry ==
    /\ NormIdle
    /\ LoopIdle
    /\ dispatch = DispatchIdle
    /\ chk = CheckIdle
    /\ bfetch = FetchIdle
    /\ surface = SurfaceIdle
    /\ parse = ParseIdle
    /\ cores = CoresIdle
    /\ serve = ServeIdle
    /\ bot = BotIdle
    /\ registry \in {RegistryIdle,
                     [RegistryIdle EXCEPT !.config = [chat_ids |-> <<"c1">>, chat_id |-> "c1",
                                                      enabled |-> TRUE]]}

\* telegram_bot.py lines 20-31: the bot loads config.json once, when it starts
BotStart ==
    /\ ~registry.bot_running
    /\ registry.ops < MaxOps
    /\ registry' = [registry EXCEPT !.bot_running = TRUE,
                                    !.bot_config = registry.config,
                                    !.op = [kind |-> "start", ids |-> <<>>]]
    /\ UNCHANGED <<norm_vars, loop_vars, more_vars, parse, cores, serve, bot>>

\* telegram_bot.py lines 109-141 and 33-36: /start handled by the polling bot;
\* save_config writes the bot's copy, and an error of the write ends the bot
BotRegisterUser ==
    /\ registry.bot_running
    /\ registry.ops < MaxOps
    /\ \E c \in ChatIdentifiers, saved \in BOOLEAN :
          LET op == [kind |-> "bot", ids |-> <<c>>]
          IN  IF InList(c, registry.bot_config.chat_ids)
              THEN registry' = [registry EXCEPT !.op = op, !.ops = @ + 1]
              ELSE IF saved
              THEN registry' = [registry EXCEPT
                                   !.bot_config = bot_register(registry.bot_config, c),
                                   !.config = bot_register(registry.bot_config, c),
                                   !.op = op, !.ops = @ + 1]
              ELSE registry' = [registry EXCEPT
                                   !.bot_running = FALSE,
                                   !.bot_config = RegistryIdle.bot_config,
                                   !.op = op, !.ops = @ + 1]
    /\ UNCHANGED <<norm_vars, loop_vars, more_vars, parse, cores, serve, bot>>

\* api/webhook.py lines 42-76: /start handled by the webhook; config.json is
\* loaded for the call, and the write may fail on a read-only file system
WebhookRegisterUser ==
    /\ registry.ops < MaxOps
    /\ \E c \in ChatIdentifiers, saved \in BOOLEAN :
          LET op == [kind |-> "webhook", ids |-> <<c>>]
          IN  IF ~InList(c, registry.config.chat_ids) /\ saved
              THEN registry' = [registry EXCEPT
                                   !.config.chat_ids = Append(@, c),
                                   !.op = op, !.ops = @ + 1]
              ELSE registry' = [registry EXCEPT !.op = op, !.ops = @ + 1]
    /\ UNCHANGED <<norm_vars, loop_vars, more_vars, parse, cores, serve, bot>>

\* register_users.py lines 155-182: the bulk registration
RegisterUsersFromUpdates ==
    /\ registry.ops < MaxOps
    /\ \E users \in UniqueUsers :
          registry' = [registry EXCEPT
                          !.config.chat_ids = add_users(@, users),
                          !.op = [kind |-> "bulk", ids |-> users],
                          !.ops = @ + 1]
    /\ UNCHANGED <<norm_vars, loop_vars, more_vars, parse, cores, serve, bot>>

NextRegistry ==
    BotStart \/ BotRegisterUser \/ WebhookRegisterUser \/ RegisterUsersFromUpdates

SpecRegistry == InitRegistry /\ [][NextRegistry]_vars

----------------------------------------------------------------------------
(* Properties of the normalisation (SpecNorm) *)

\* two strings are equal up to the case of their letters
SameLetter(c, d) ==
    \/ c = d
    \/ c >= 65 /\ c <= 90 /\ d = c + 32
    \/ d >= 65 /\ d <= 90 /\ c = d + 32

EqNoCase(a, b) == Len(a) = Len(b) /\ \A i \in 1..Len(a) : SameLetter(a[i], b[i])

\* the entry's status is in_stock or low_on_stock, compared case-insensitively
EntryAvailable(e) ==
    /\ e.availability.tag = "str"
    /\ EqNoCase(e.availability.val, str_in_stock) \/ EqNoCase(e.availability.val, str_low_on_stock)

EntryOutOfStock(e) == e.availability = AvStr(str_out_of_stock)

AvailableIndexes == {i \in 1..Len(skus_availability) : EntryAvailable(skus_availability[i])}

\* every status of the answer is a string, or the key is missing
StatusesAreText == \A i \in 1..Len(skus_availability) : skus_availability[i].availability.tag # "null"

\* the label the entry is shown with: its mapped label, "SKU <id>" without one
EntryLabel(e) == MappingGet(size_mapping, e.sku, SkuLabel(e.sku))

Occurrences(seq, x) == Cardinality({i \in 1..Len(seq) : seq[i] = x})

Ascending(seq) == \A i, j \in 1..Len(seq) : i < j => StrLeq(seq[i], seq[j])

Ran == calls >= 1

\* C4: an answer in which every status is out_of_stock gives, under every
\* policy, a result with in_stock = false and no available size
C4_AllOutOfStock ==
    (Ran /\ \A i \in 1..Len(skus_availability) : EntryOutOfStock(skus_availability[i]))
        => /\ api_result.ok
           /\ api_result.in_stock = FALSE
           /\ api_result.available_sizes = <<>>

C4_Witness ==
    /\ Ran
    /\ Len(skus_availability) >= 3
    /\ \A i \in 1..Len(skus_availability) : EntryOutOfStock(skus_availability[i])
    /\ policy.notify_only_all_sizes
    /\ policy.min_sizes_in_stock > 0
    /\ api_result.ok /\ ~api_result.in_stock

\* C5: with no policy override, an answer with at least one in_stock or
\* low_on_stock entry gives in_stock = true and a non-empty list of sizes in
\* ascending string order
C5_SomeInStock ==
    (Ran /\ StatusesAreText /\ policy = DefaultPolicy /\ AvailableIndexes # {})
        => /\ api_result.ok
           /\ api_result.in_stock = TRUE
           /\ api_result.available_sizes # <<>>
           /\ Ascending(api_result.available_sizes)

\* two sizes that arrive in descending order come out ascending
C5_Witness ==
    /\ Ran /\ policy = DefaultPolicy /\ page_mapping = PageMappingMixed
    /\ Len(skus_availability) = 3
    /\ AvailableIndexes = {1, 3}
    /\ skus_availability[1].sku = 100 /\ skus_availability[3].sku = 300
    /\ api_result.in_stock
    /\ api_result.available_sizes = << <<83>>, <<88, 76>> >>

\* C6: available_sizes holds exactly the labels of the entries whose status
\* is in_stock or low_on_stock (case-insensitively), one per entry; entries
\* with any other status, or none, contribute nothing
C6_ExactlyAvailable ==
    (Ran /\ StatusesAreText)
        => /\ api_result.ok
           /\ Len(api_result.available_sizes) = Cardinality(AvailableIndexes)
           /\ \A i \in 1..Len(skus_availability) :
                LET label == EntryLabel(skus_availability[i])
                IN  Occurrences(api_result.available_sizes, label)
                      = Cardinality({j \in AvailableIndexes :
                                        EntryLabel(skus_availability[j]) = label})

\* SKU 100 out_of_stock, SKU 200 in_stock, mapping {100: S, 200: M}
C6_Witness ==
    /\ Ran /\ page_mapping = PageMappingSM /\ policy = DefaultPolicy
    /\ skus_availability = << [sku |-> 100, availability |-> AvStr(str_out_of_stock)],
                              [sku |-> 200, availability |-> AvStr(str_in_stock)] >>
    /\ api_result.in_stock
    /\ api_result.available_sizes = << <<77>> >>

\* an upper-case status next to out_of_stock
C6_WitnessCase ==
    /\ Ran
    /\ Len(skus_availability) = 2
    /\ skus_availability[1].availability = AvStr(str_out_of_stock)
    /\ skus_availability[2].availability = AvStr(str_IN_STOCK)
    /\ Len(api_result.available_sizes) = 1

\* a status the code does not know and a missing status give no size
C6_WitnessUnknown ==
    /\ Ran /\ api_result.ok
    /\ Len(skus_availability) = 1
    /\ skus_availability[1].availability \in {AvStr(str_coming_soon), AvAbsent}
    /\ api_result.available_sizes = <<>>

\* C7: with notify_only_all_sizes set and fewer entries available than the
\* answer holds, in_stock is false whatever min_sizes_in_stock is, and
\* available_sizes still lists the available sizes
C7_RequireAllSizes ==
    (Ran /\ StatusesAreText /\ policy.notify_only_all_sizes
         /\ Cardinality(AvailableIndexes) < Len(skus_availability))
        => /\ api_result.ok
           /\ api_result.in_stock = FALSE
           /\ Len(api_result.available_sizes) = Cardinality(AvailableIndexes)
           /\ \A j \in AvailableIndexes :
                \E k \in 1..Len(api_result.available_sizes) :
                    api_result.available_sizes[k] = EntryLabel(skus_availability[j])

\* 3 of 4 in stock
C7_Witness ==
    /\ Ran /\ policy.notify_only_all_sizes /\ policy.min_sizes_in_stock = 0
    /\ Len(skus_availability) = 4
    /\ Cardinality(AvailableIndexes) = 3
    /\ api_result.ok /\ ~api_result.in_stock
    /\ Len(api_result.available_sizes) = 3

RequireAllForces ==
    policy.notify_only_all_sizes /\ Cardinality(AvailableIndexes) < Len(skus_availability)

\* C8: when notify_only_all_sizes did not force the result, in_stock is true
\* iff at least min_sizes_in_stock entries are available (min_sizes_in_stock
\* > 0), iff at least one is (min_sizes_in_stock = 0)
C8_MinSizes ==
    (Ran /\ StatusesAreText /\ ~RequireAllForces)
        => /\ api_result.ok
           /\ policy.min_sizes_in_stock > 0 =>
                (api_result.in_stock <=> Cardinality(AvailableIndexes) >= policy.min_sizes_in_stock)
           /\ policy.min_sizes_in_stock = 0 =>
                (api_result.in_stock <=> Cardinality(AvailableIndexes) >= 1)

\* exactly as many sizes available as required: in stock
C8_Witness ==
    /\ Ran /\ ~policy.notify_only_all_sizes
    /\ policy.min_sizes_in_stock = 2
    /\ Cardinality(AvailableIndexes) = 2
    /\ Len(skus_availability) = 3
    /\ api_result.in_stock

\* one size short of the minimum: not in stock although a size is available
C8_WitnessShort ==
    /\ Ran /\ ~policy.notify_only_all_sizes
    /\ policy.min_sizes_in_stock = 2
    /\ Cardinality(AvailableIndexes) = 1
    /\ ~api_result.in_stock
    /\ Len(api_result.available_sizes) = 1

AnswerIds == {skus_availability[i].sku : i \in 1..Len(skus_availability)}

IdsDistinct == Cardinality(AnswerIds) = Len(skus_availability)

\* the i-th label of the canonical sequence, as the specification lists it
CanonicalLabel(i) ==
    IF i <= 7
    THEN << <<88, 83>>, <<83>>, <<77>>, <<76>>, <<88, 76>>, <<88, 88, 76>>, <<88, 88, 88, 76>> >>[i]
    ELSE IF i <= Len(size_names) THEN size_names[i]
    ELSE SizeN(i)

\* C9: without a page-scraped mapping the i-th smallest SKU id gets the i-th
\* label of XS, S, M, L, XL, XXL, XXXL, the numeric sizes, then 'Size N',
\* whatever the order in which the SKUs arrive
C9_PositionalFallback ==
    (Ran /\ page_mapping = NoMapping /\ IdsDistinct)
        => /\ DOMAIN size_mapping = AnswerIds
           /\ \A k \in AnswerIds :
                size_mapping[k] = CanonicalLabel(Cardinality({m \in AnswerIds : m <= k}))

\* ids [300, 100, 200] give 100 -> XS, 200 -> S, 300 -> M
C9_Witness ==
    /\ Ran /\ page_mapping = NoMapping
    /\ [i \in 1..Len(skus_availability) |-> skus_availability[i].sku] = <<300, 100, 200>>
    /\ size_mapping = (100 :> <<88, 83>>) @@ (200 :> <<83>>) @@ (300 :> <<77>>)

\* an answer long enough to run through the numeric sizes into 'Size 16'
C9_WitnessOverflow ==
    /\ Ran /\ page_mapping = NoMapping
    /\ Len(skus_availability) = 16
    /\ skus_availability[1].sku # 100
    /\ size_mapping[800] = <<52>>
    /\ size_mapping[1500] = <<49, 56>>
    /\ size_mapping[1600] = <<83, 105, 122, 101, 32, 49, 54>>

C28_SizesBoundStock ==
    (Ran /\ api_result.ok) =>
        /\ api_result.in_stock => api_result.available_sizes # <<>>
        /\ Len(api_result.available_sizes) <= Len(skus_availability)

\* some but not all entries are available and the result is in stock
C28_Witness ==
    /\ Ran
    /\ api_result.ok /\ api_result.in_stock
    /\ Len(api_result.available_sizes) >= 1
    /\ Len(api_result.available_sizes) < Len(skus_availability)

\* the policy lowers in_stock and leaves the sizes listed
C28_WitnessPolicy ==
    /\ Ran
    /\ api_result.ok /\ ~api_result.in_stock
    /\ policy.min_sizes_in_stock > 0
    /\ api_result.available_sizes # <<>>

----------------------------------------------------------------------------
(* Properties of the change tracker (Spec) *)

\* the step is an iteration whose check returned a result
CheckStep == event'.kind = "check"

\* the record of the checked reference before the step
RecordBefore == last_notified[event'.url]

ElapsedBefore == event'.time - RecordBefore.time

\* a notification went out to the recipients in the latest iteration
NotificationSent == event.posts # {}

\* the dispatcher sends: Telegram enabled, a bot token, a result without
\* error, at least one chat id
CanDeliver ==
    /\ telegram.enabled
    /\ telegram.bot_token # ""
    /\ ~event.error
    /\ ChatIds(telegram) # {}

\* Telegram is enabled and has a bot token and at least one chat id
TelegramReady == telegram.enabled /\ telegram.bot_token # "" /\ ChatIds(telegram) # {}

\* C1 as stated (with Telegram configured): the first check of a reference sends a notification, an
\* immediately repeated check with the recorded in_stock sends none, a check
\* with a flipped in_stock sends exactly one
C1_AsStated ==
    [][(CheckStep /\ TelegramReady) =>
        /\ ~RecordBefore.known => NotificationSent'
        /\ (RecordBefore.known /\ RecordBefore.in_stock = event'.in_stock
                /\ ElapsedBefore <= DAY) => ~NotificationSent'
        /\ (RecordBefore.known /\ RecordBefore.in_stock # event'.in_stock)
                => NotificationSent']_vars

\* C1, amended: the first check of a reference calls the dispatcher once, an
\* immediately repeated check with the recorded in_stock does not call it, a
\* check with a flipped in_stock calls it once; the dispatcher called posts
\* the message to every configured chat id unless the result carries an
\* error or Telegram is disabled, has no token or has no chat id, and
\* nothing is posted when it is not called
C1_TrackerNotifies ==
    [][CheckStep =>
        /\ ~RecordBefore.known => event'.invoked
        /\ (RecordBefore.known /\ RecordBefore.in_stock = event'.in_stock
                /\ ElapsedBefore <= DAY) => ~event'.invoked
        /\ (RecordBefore.known /\ RecordBefore.in_stock # event'.in_stock)
                => event'.invoked
        /\ event'.posts = IF event'.invoked /\ CanDeliver' THEN ChatIds(telegram) ELSE {}]_vars

\* a flipped in_stock within the day, notified to both recipients
C1_Witness ==
    /\ event.kind = "check"
    /\ ~event.first /\ event.state_changed /\ ~event.daily
    /\ event.invoked
    /\ event.posts = {"c1", "c2"}
    /\ last_notified[event.url].in_stock = event.in_stock

\* C2 (with Telegram configured): the record of a reference changes in a
\* step if and only if the step sends a notification for that reference to
\* the recipients
C2_RecordIffSent ==
    [][TelegramReady =>
        \A u \in Urls :
            (last_notified'[u] # last_notified[u])
                <=> (CheckStep /\ event'.url = u /\ NotificationSent')]_vars

\* C3 as stated (with Telegram configured): with a record and an unchanged in_stock a notification is
\* sent iff more than 24 hours have passed since last_notified_at; the
\* heartbeat sets the time of the record and keeps its in_stock
C3_AsStated ==
    [][(CheckStep /\ TelegramReady /\ RecordBefore.known
            /\ RecordBefore.in_stock = event'.in_stock) =>
        /\ NotificationSent' <=> ElapsedBefore > DAY
        /\ ElapsedBefore > DAY =>
             last_notified'[event'.url] = [RecordBefore EXCEPT !.time = event'.time]]_vars

\* C3, amended: with a record and an unchanged in_stock the dispatcher is
\* called iff strictly more than 86400 s have passed since last_notified_at;
\* it then posts the message unless the result carries an error or Telegram
\* is not configured; the heartbeat sets last_notified_at to the current
\* time and keeps last_in_stock, and without it the record stays as it was
C3_Heartbeat ==
    [][(CheckStep /\ RecordBefore.known /\ RecordBefore.in_stock = event'.in_stock) =>
        /\ event'.invoked <=> ElapsedBefore > DAY
        /\ NotificationSent' <=> (ElapsedBefore > DAY /\ CanDeliver')
        /\ ElapsedBefore > DAY =>
             last_notified'[event'.url] = [RecordBefore EXCEPT !.time = event'.time]
        /\ ElapsedBefore <= DAY => last_notified' = last_notified]_vars

\* a heartbeat one second after the day, delivered
C3_Witness ==
    /\ event.kind = "check"
    /\ ~event.first /\ ~event.state_changed /\ event.daily
    /\ event.invoked /\ event.posts # {}
    /\ last_notified[event.url] = [known |-> TRUE, in_stock |-> event.in_stock, time |-> event.time]
    /\ \E u \in Urls : u # event.url /\ last_notified[u].known
                        /\ event.time - last_notified[u].time < DAY

----------------------------------------------------------------------------
(* Properties of the dispatcher (SpecNotify) *)

\* the posts made to cid in the call
PostsTo(cid) == Cardinality({i \in 1..Len(dispatch.posts) : dispatch.posts[i].cid = cid})

\* the posts Telegram accepted
Delivered == {i \in 1..Len(dispatch.posts) : dispatch.posts[i].outcome = "ok"}

\* the call got past the returns that precede the loop
ReachedLoop ==
    ~ReturnsEarly(dispatch.dispatcher, dispatch.tg, dispatch.error, dispatch.in_stock,
                  dispatch.skip_nostock)

\* C11: a call of the dispatcher that reaches its loop posts to every
\* recipient exactly once, whatever the earlier posts met (a post that
\* raises or is rejected leaves the remaining recipients to be attempted),
\* returns without raising, and reports as its count the number of accepted
\* posts
C11_EveryRecipientOnce ==
    /\ dispatch.state \in {"idle", "sending", "returned"}
    /\ dispatch.state = "sending" =>
        \A cid \in ChatIds(dispatch.tg) :
            /\ PostsTo(cid) <= 1
            /\ PostsTo(cid) = 0 <=> \E i \in 1..Len(dispatch.pending) : dispatch.pending[i] = cid
    /\ (dispatch.state = "returned" /\ ReachedLoop) =>
        /\ \A cid \in ChatIds(dispatch.tg) : PostsTo(cid) = 1
        /\ Len(dispatch.posts) = Cardinality(ChatIds(dispatch.tg))
        /\ dispatch.reported = Cardinality(Delivered)

\* three recipients, the first post raises, the other two are accepted:
\* the count is 2
C11_Witness ==
    /\ dispatch.state = "returned"
    /\ Cardinality(ChatIds(dispatch.tg)) = 3
    /\ Len(dispatch.posts) = 3
    /\ dispatch.posts[1].outcome = "raised"
    /\ dispatch.posts[2].outcome = "ok" /\ dispatch.posts[3].outcome = "ok"
    /\ dispatch.reported = 2

\* C27: a call of the dispatcher with a result that carries an error makes
\* no post to any recipient, with either dispatcher and every configuration.
C27_ErrorNeverPosted ==
    dispatch.error => (dispatch.posts = <<>> /\ dispatch.state # "sending")

\* Telegram is configured with recipients, the result carries an error, the
\* call has returned and nothing was posted
C27_Witness ==
    /\ dispatch.state = "returned"
    /\ dispatch.error
    /\ dispatch.tg.enabled /\ dispatch.tg.bot_token # "" /\ ChatIds(dispatch.tg) # {}
    /\ dispatch.posts = <<>>

----------------------------------------------------------------------------
(* Properties of check_stock (SpecCheck) *)

\* the order of the strategies
StrategyOrder == <<"api", "html", "browser">>

\* the call of check_stock has returned
CheckDone == chk.state = "done"

\* the API path was taken and returned None
ApiFailed == chk.api \notin {"", "ok"}

\* C12: whatever the checker, the strategies are attempted in the order
\* API, plain HTML, browser, none before the earlier ones were attempted and
\* failed; a check whose API path failed goes on to the HTML retrieval; the
\* result is that of the first strategy that succeeded
C12_StrategyOrder ==
    /\ \A i \in 1..Len(chk.tried) : chk.tried[i] = StrategyOrder[i]
    /\ (CheckDone /\ ApiFailed) => Len(chk.tried) >= 2
    /\ (CheckDone /\ chk.api = "ok") => chk.tried = <<"api">> /\ chk.result.method = "api"

\* C13: a check whose availability request was answered with a non-200
\* status has its API path return None without raising, and then fetches
\* the page of the same reference (the HTML path)
C13_Http500FallsBack ==
    (CheckDone /\ chk.api = "status") =>
        /\ Len(chk.tried) >= 2 /\ chk.tried[2] = "html"
        /\ \E i \in 1..Len(chk.requests) :
                chk.requests[i].by = "fetch" /\ chk.requests[i].url = "reference"

\* C14: the HTML path is entered only after the API path failed entirely
\* (identity not resolved, request error, non-200 status, malformed
\* payload); a 200 answer with an empty SKU list does not lead to it
C14_HtmlOnlyAfterFailure ==
    (\E i \in 1..Len(chk.tried) : chk.tried[i] = "html") =>
        chk.api \in {"unresolved", "request_error", "status", "malformed"}

\* every strategy the checker has was attempted and failed: the API path
\* returned None, and the page was not fetched or (lines 1149-1156) was
\* fetched and gave no product name; for the browser checker, whose
\* check_stock looks at the fetch only, the page was not fetched
AllStrategiesFailed ==
    /\ CheckDone
    /\ chk.checker \in {"plain", "script"} => ApiFailed
    /\ chk.checker = "plain" => chk.page \in {"no_html", "unnamed"}
    /\ chk.checker = "browser" => chk.page = "no_html"

\* C15: a check in which every available strategy failed returns a result
\* with error set, in_stock false, and no name and no price
C15_AllFailedIsError ==
    AllStrategiesFailed =>
        /\ chk.result.error
        /\ ~chk.result.in_stock
        /\ chk.result.name \in {"null", "absent"}
        /\ chk.result.price \in {"null", "absent"}

\* the requests of the call made at a call site
RequestsBy(site) == {i \in 1..Len(chk.requests) : chk.requests[i].by = site}

C19_WitnessNoRetry ==
    /\ CheckDone /\ chk.checker = "plain"
    /\ Cardinality(RequestsBy("fetch")) = 1
    /\ chk.requests[Len(chk.requests)].met = "request_error"
    /\ chk.result = FetchFailedResult

\* C20: every identity the resolver returns has a store_id of the
\* country-to-store table and a positive product_id
C20_IdentityValid ==
    chk.identity.found =>
        /\ chk.identity.store_id \in StoreCodes
        /\ chk.identity.product_id > 0

\* the GET of the resolver met a network error or a timeout ("raised"), or an
\* answer other than 200
ResolverFetchFailed ==
    \E i \in 1..Len(chk.requests) :
        chk.requests[i].by = "resolver" /\ chk.requests[i].met \in {"raised", "404"}

\* C21: when the GET of the reference page fails during resolution, the
\* resolver returns no identity without raising, the availability API is not
\* called in this check, and check_stock of zara_stock_checker.py goes on to
\* fetch and parse the page.
C21_ResolutionFailureFallsBack ==
    ResolverFetchFailed =>
        /\ ~chk.identity.found
        /\ chk.api = "unresolved"
        /\ RequestsBy("api") = {}
        /\ chk.checker = "plain" =>
            /\ chk.tried = <<"api", "html">>
            /\ chk.state \in {"html", "html_retry", "done"}
            /\ chk.state = "done" => RequestsBy("fetch") # {}

\* a timeout in the resolver, then the page is fetched and parsed
C21_Witness ==
    /\ chk.checker = "plain"
    /\ chk.state = "done"
    /\ \E i \in 1..Len(chk.requests) :
         chk.requests[i].by = "resolver" /\ chk.requests[i].met = "raised"
    /\ chk.result.method = "html"
    /\ ~chk.result.error

----------------------------------------------------------------------------
(* Properties of the browser fetch (SpecBrowser) *)

\* C18: during one browser fetch at most one handle is created in place of
\* a dead one; after that the fetch gives up without creating another.
C18_RecreatedAtMostOnce == bfetch.created <= 1

\* C29: no exception of the driver or of its recreation leaves
\* fetch_product_page; every failure ends in a return without HTML.
C29_NeverRaises == bfetch.state # "raised"

----------------------------------------------------------------------------
(* Properties of the single-shot trigger surfaces (SpecSurface) *)

HttpEvents ==
    IF surface.kind \in HttpSurfaces
    THEN {surface.events[i] : i \in 1..Len(surface.events)}
    ELSE {}

SurfaceReady ==
    surface.tg.enabled /\ surface.tg.bot_token # "" /\ ChatIds(surface.tg) # {}

\* C16: when an invocation is over, every reference it was given has been
\* checked, in the configured order, whatever failed on the way.
C16_AllReferencesChecked ==
    surface.state \in {"finished", "exited"} => surface.checked = surface.refs

C23_ResultNotMutated ==
    \A i \in 1..Len(surface.events) :
        ~surface.events[i].raised =>
            surface.events[i].error = surface.events[i].returned_error

----------------------------------------------------------------------------
(* Properties of parse_stock_info (SpecParse) *)

\* a 'few items left' or an equivalent low-stock phrase is in the page
LowStockPhrase(text) ==
    \/ ContainsWords(text, <<"few", "items", "left">>)
    \/ ContainsWords(text, <<"few", "items">>)
    \/ ContainsWords(text, <<"only", "3", "left">>)
    \/ ContainsWords(text, <<"low", "stock">>)

\* C22: with an OUT OF STOCK button the parsed result is out of stock and
\* lists no size; without one it is in stock exactly when a size was parsed
\* or a low-stock phrase is in the page, and it lists the parsed sizes.
C22_HtmlOverrides ==
    parse.state = "parsed" =>
        IF parse.out_of_stock_button
        THEN ~parse.result.in_stock /\ parse.result.available_sizes = <<>>
        ELSE /\ parse.result.in_stock <=> (parse.sizes # <<>> \/ LowStockPhrase(parse.text))
             /\ parse.result.available_sizes = parse.sizes

----------------------------------------------------------------------------
(* Properties of the check core (SpecCore) *)

\* C24: for the same product reference, the same configuration and the same
\* availability answer, the checker behind /check and the polling loop and the
\* checker behind /api/stock-check and the one-shot script produce the same
\* in_stock, the same available_sizes and the same error outcome
C24_SameCore ==
    cores.state = "both" =>
        /\ cores.main.ok = cores.script.ok
        /\ cores.main.in_stock = cores.script.in_stock
        /\ cores.main.available_sizes = cores.script.available_sizes

----------------------------------------------------------------------------
(* Properties of the server (SpecServe) *)

\* C25: at most one check executes in a process at any time, and get_checker
\* creates at most one checker per process, also when requests of /check
\* arrive while a check is in progress
C25_OneCheckAtATime ==
    /\ Cardinality({t \in Threads : serve.pc[t] = "check_stock"}) <= 1
    /\ serve.created <= 1

----------------------------------------------------------------------------
(* Properties of the polling loop of the registration bot (SpecBot) *)

HandledOnce(handled) ==
    \A i, j \in 1..Len(handled) : handled[i] = handled[j] => i = j

\* C30: in the polling loop last_update_id never decreases, every request asks
\* with offset last_update_id + 1, no update is handled a second time, and a
\* failed or empty poll leaves last_update_id unchanged
C30_PollingCursor ==
    [][/\ bot'.last_update_id >= bot.last_update_id
       /\ HandledOnce(bot'.handled)
       /\ bot'.polls # bot.polls =>
             /\ bot'.offset = bot.last_update_id + 1
             /\ bot'.poll \in {"failed", "empty"} =>
                   bot'.last_update_id = bot.last_update_id]_vars

\* two updates of one batch were handled, and the last poll failed
C30_Witness ==
    /\ Len(bot.handled) >= 2
    /\ bot.last_update_id >= 2
    /\ bot.polls >= 2
    /\ bot.poll = "failed"

----------------------------------------------------------------------------
(* Properties of the registration of recipients (SpecRegistry) *)

\* C26: after any sequence of registration operations the stored recipient
\* list holds each chat identifier at most once, an identifier once stored is
\* never removed, and registering identifiers that are all stored already
\* leaves the stored configuration unchanged
C26_RecipientsKept ==
    [][/\ \A i, j \in 1..Len(registry'.config.chat_ids) :
             registry'.config.chat_ids[i] = registry'.config.chat_ids[j] => i = j
       /\ \A c \in ChatIdentifiers :
             InList(c, registry.config.chat_ids) => InList(c, registry'.config.chat_ids)
       /\ (/\ registry'.ops # registry.ops
           /\ \A i \in 1..Len(registry'.op.ids) :
                 InList(registry'.op.ids[i], registry.config.chat_ids))
             => registry'.config = registry.config]_vars

====
